---- MODULE Spec2Model ----
(***************************************************************************)
(* Model of the YouTube channel tooling: YouTubeAPI.get_channel_id (URL    *)
(* normalisation, /channel/ extraction, the three-lookup fallback chain),  *)
(* its copy in youtube_channel_manager (a two-lookup chain), and           *)
(* YouTubeAPI.get_channel_videos (the pagination loop and the mapping of   *)
(* raw items), get_channel_videos_old, main of src/main.py, the Config     *)
(* singleton of src/src/config.py, VideoDownloader, TranscriptionHandler,  *)
(* and main and the retrying VideoDownloader of youtube_channel_manager.   *)
(*                                                                         *)
(*   ResolveSpec    src/src/youtube_api.py get_channel_id                  *)
(*   NormalizeSpec  the same, on URLs in which a scheme text recurs        *)
(*   CmResolveSpec  src/youtube_channel_manager/src/youtube_api.py         *)
(*                  get_channel_id                                         *)
(*   ListSpec       src/src/youtube_api.py get_channel_videos              *)
(*   OldListSpec    src/src/youtube_api.py get_channel_videos_old, and     *)
(*                  youtube_channel_manager's get_channel_videos           *)
(*   MainSpec       src/main.py main                                       *)
(*   SelectSpec     src/main.py main, the selection loop                   *)
(*   ConfigSpec     src/src/config.py Config                               *)
(*   DownloadSpec   src/src/video_downloader.py VideoDownloader            *)
(*   TranscribeSpec src/src/transcription_handler.py TranscriptionHandler  *)
(*   CmMainSpec     src/youtube_channel_manager/main.py main               *)
(*   CmDownloadSpec src/youtube_channel_manager/src/video_downloader.py    *)
(*                  VideoDownloader                                        *)
(*   ListLiveSpec   get_channel_videos under fairness, for termination     *)
(*                                                                         *)
(* Strings the code inspects character by character (the channel URL) are  *)
(* sequences of one-character strings; str.startswith, str.replace,        *)
(* str.split and the "in" test are modelled on those sequences.            *)
(***************************************************************************)
EXTENDS Integers, Sequences, FiniteSets, TLC

VARIABLES
    \* ---- YouTubeAPI.get_channel_id ----
    url_in,        \* the channel_url argument as the caller passed it
    rpc,           \* position in get_channel_id
    channel_url,   \* the local channel_url after normalisation
    username,      \* the local username (handle/custom/user form)
    lookups,       \* requests executed so far, in order: [strategy, q]
    replies,       \* what each executed request answered, same order
    rresult,       \* how get_channel_id ended: [kind, value]
    \* ---- YouTubeAPI.get_channel_videos ----
    max_results,   \* the max_results argument
    upstream,      \* number of videos the channel has upstream
    cursor,        \* how many upstream videos the endpoint has handed out
    lpc,           \* position in get_channel_videos
    request,       \* the local request: NoRequest or [maxResults, pageToken]
    response,      \* the response being processed: [items, token]
    pending,       \* items of the response the for loop has not visited yet
    videos,        \* the local videos list
    executed,      \* every request executed, in order
    fetched,       \* all items of all responses received, in order
    honoured,      \* the endpoint has so far kept to the page-size/token contract
    tokens,        \* nextPageToken of every response received, in order
    lresult,       \* how get_channel_videos ended: [kind, value]
    flaw,          \* the upstream video whose raw item lacks a field, if any
    \* ---- main (src/main.py) ----
    mpc,           \* position in main
    m_rounds,      \* how many times the channel-URL prompt was answered
    m_channel_id,  \* the local channel_id
    m_videos,      \* the local videos
    m_shown,       \* how many records the display loop has printed in full
    m_error,       \* class of the exception that ended main, "none" if none
    printed,       \* what main has printed, in order
    \* ---- Config (src/src/config.py) ----
    env,             \* the environment os.getenv reads, after load_dotenv
    dirs,            \* the directories that exist
    cls_instance,    \* Config._instance: 0 (None) or the number of an instance
    cls_initialized, \* Config._initialized
    objs,            \* the instances created so far: their attributes
    c_calls,         \* number of Config() calls made
    c_assigns,       \* number of attribute assignments attempted by callers
    c_setenvs,       \* number of changes made to the environment
    c_last,          \* the last operation and how it ended
    epoch_returned,  \* instances Config() returned since the last reset()
    epoch_inits,     \* times the body of __init__ ran since the last reset()
    epoch_done,      \* times it ran to its end since the last reset()
    prev_returned,   \* instances Config() returned before the last reset()
    c_done,          \* instances whose initialization ran to its end
    c_snap,          \* their attributes as initialization left them
    \* ---- VideoDownloader (src/src/video_downloader.py) ----
    d_urls,          \* the video_urls argument of download_multiple_videos
    dpc,             \* position in download_multiple_videos
    d_calls,         \* every download_video call: url, what yt-dlp did, outcome
    d_results,       \* the local results list
    d_result,        \* how download_multiple_videos ended: [kind, value]
    \* ---- TranscriptionHandler (src/src/transcription_handler.py) ----
    t_count,         \* number of get_transcription calls made
    t_last,          \* the last get_transcription call: inputs, steps, outcome
    t_files,         \* the transcript directory: file name -> content
    \* ---- the selection prompt of the two main programs ----
    s_prompts,       \* how many times the selection prompt was answered
    s_last,          \* the last answer, and the downloads made before it
    s_downloads,     \* every download main asked for: the video and the result
    s_transcribed,   \* every video main asked a transcription for, in order
    \* ---- VideoDownloader (youtube_channel_manager/src/video_downloader.py) ----
    x_format,        \* self.ydl_opts['format']
    xpc,             \* position in download_video
    x_calls,         \* number of download_video calls made on the object
    x_attempt,       \* the local current_attempt
    x_tried,         \* the passes of the current call: format used and outcome
    x_last           \* how the current call ended: [kind, value]

rvars == <<url_in, rpc, channel_url, username, lookups, replies, rresult>>
lvars == <<max_results, upstream, cursor, lpc, request, response, pending,
           videos, executed, fetched, honoured, tokens, lresult, flaw>>
mvars == <<mpc, m_rounds, m_channel_id, m_videos, m_shown, m_error, printed>>
cvars == <<env, dirs, cls_instance, cls_initialized, objs, c_calls, c_assigns,
           c_setenvs, c_last, epoch_returned, epoch_inits, epoch_done, prev_returned,
           c_done, c_snap>>
dvars == <<d_urls, dpc, d_calls, d_results, d_result>>
tvars == <<t_count, t_last, t_files>>
svars == <<s_prompts, s_last, s_downloads, s_transcribed>>
xvars == <<x_format, xpc, x_calls, x_attempt, x_tried, x_last>>
ovars == <<dvars, tvars, svars, xvars>>
vars == <<rvars, lvars, mvars, cvars, ovars>>

----------------------------------------------------------------------------
(* Bounds of the model *)

\* longest path part of an input URL, in pieces
MaxSegs == 3
\* max_results ranges over -1..MaxSmallResults and a few values beyond a page
MaxSmallResults == 3
\* a channel has 0..MaxSmallUpstream videos, or more than a page of them
MaxSmallUpstream == 4
\* requests get_channel_videos may execute before the model stops following it
MaxRequests == 3
\* the incomplete raw item of a channel is one of its first MaxFlawAt videos
MaxFlawAt == 3
\* how many times main's channel-URL prompt is answered
MaxRounds == 4
\* longest list of videos main is handed
MaxListed == 2
\* longest tail of an input URL of the normalisation, in pieces
MaxNormSegs == 2
\* Config() calls, Config instances and attribute assignments of a run
MaxConfigCalls == 3
MaxInstances == 2
MaxAssignments == 1
\* changes of the environment in a run
MaxSetenvs == 1

----------------------------------------------------------------------------
(* Character-level string operations of Python, on sequences of characters *)

\* str.startswith(p)
StartsWith(s, p) == Len(s) >= Len(p) /\ SubSeq(s, 1, Len(p)) = p

\* str.find(p) + 1: index of the first occurrence of p in s, 0 when absent
Find(s, p) ==
    LET I == {i \in 1..(Len(s) - Len(p) + 1) : SubSeq(s, i, i + Len(p) - 1) = p}
    IN IF I = {} THEN 0 ELSE CHOOSE i \in I : \A j \in I : i <= j

\* p in s
Contains(s, p) == Find(s, p) # 0

\* str.replace(old, new): every non-overlapping occurrence, left to right
RECURSIVE Replace(_, _, _)
Replace(s, old, new) ==
    LET i == Find(s, old)
    IN IF i = 0 THEN s
       ELSE SubSeq(s, 1, i - 1) \o new
            \o Replace(SubSeq(s, i + Len(old), Len(s)), old, new)

\* str.split(sep): the list of parts, always at least one
RECURSIVE Split(_, _)
Split(s, sep) ==
    LET i == Find(s, sep)
    IN IF i = 0 THEN <<s>>
       ELSE <<SubSeq(s, 1, i - 1)>> \o Split(SubSeq(s, i + Len(sep), Len(s)), sep)

Last(q) == q[Len(q)]

\* the string literals of get_channel_id
HTTP       == <<"h","t","t","p",":","/","/">>
HTTPS      == <<"h","t","t","p","s",":","/","/">>
WWW        == <<"w","w","w",".">>
HTTP_WWW   == HTTP \o WWW
HTTPS_WWW  == HTTPS \o WWW
SLASH      == <<"/">>
CHANNEL    == <<"/","c","h","a","n","n","e","l","/">>
C_SEG      == <<"/","c","/">>
USER_SEG   == <<"/","u","s","e","r","/">>
AT_SEG     == <<"/","@">>
AT         == <<"@">>

----------------------------------------------------------------------------
(* YouTubeAPI.get_channel_id: the pure part *)

\* lines 28-35: make the URL start with a scheme and "www."
Normalize(u) ==
    IF ~(StartsWith(u, HTTP) \/ StartsWith(u, HTTPS))
    THEN LET v == HTTPS \o u
         IN IF ~StartsWith(v, HTTPS_WWW) THEN Replace(v, HTTPS, HTTPS_WWW) ELSE v
    ELSE IF ~(StartsWith(u, HTTP_WWW) \/ StartsWith(u, HTTPS_WWW))
    THEN Replace(Replace(u, HTTPS, HTTPS_WWW), HTTP, HTTP_WWW)
    ELSE u

\* The network location urlparse sees in a normalised URL: the text between
\* the "//" that follows the scheme and the next "/".
Netloc(u) ==
    LET i == Find(u, <<":", "/", "/">>)
    IN Split(SubSeq(u, i + 3, Len(u)), SLASH)[1]

\* line 40: urlparse(channel_url) raises ValueError("Invalid IPv6 URL") when
\* the network location holds one square bracket without its partner.
UrlparseRaises(u) ==
    LET n == Netloc(u)
    IN Contains(n, <<"[">>) # Contains(n, <<"]">>)

\* line 43
HasChannelSegment(u) == Contains(u, CHANNEL)

\* line 44: channel_url.split('/channel/')[1].split('/')[0]
ChannelSegment(u) == Split(Split(u, CHANNEL)[2], SLASH)[1]

\* line 49
IsHandleForm(u) == Contains(u, C_SEG) \/ Contains(u, USER_SEG) \/ Contains(u, AT_SEG)

\* lines 51-56
ExtractUsername(u) ==
    IF Contains(u, AT_SEG)
    THEN Split(Split(u, AT_SEG)[2], SLASH)[1]
    ELSE Last(Split(u, SLASH))

\* The three requests of the fallback chain (lines 60-65, 76-79, 90-95)
HandleSearchRequest(name)  == [api |-> "search.list",   arg |-> AT \o name]
ForUsernameRequest(name)   == [api |-> "channels.list", arg |-> name]
GeneralSearchRequest(name) == [api |-> "search.list",   arg |-> name]

\* What an executed lookup can answer: execute() raises, or a response whose
\* items (absent or empty: <<>>) each carry the channel-id field or lack it.
UC1 == <<"U","C","1">>
UC2 == <<"U","C","2">>
Item(id)  == [present |-> TRUE, channelId |-> id]
NoIdItem  == [present |-> FALSE, channelId |-> <<>>]
Replies ==
    { [kind |-> "error", items |-> <<>>] }
    \cup { [kind |-> "response", items |-> its] :
             its \in { <<>>, <<NoIdItem>>, <<Item(UC1)>>, <<Item(UC2), Item(UC1)>> } }

\* lines 67, 81, 97: if response.get('items')
HasItems(reply) == reply.kind = "response" /\ reply.items # <<>>

\* lines 67-70: the body of one try block yields a channel id exactly when
\* execute() returned, the items are non-empty and the first item carries
\* the field; otherwise the except clause (or the if) falls through.
Yields(reply) == HasItems(reply) /\ reply.items[1].present

\* lines 68, 82, 98: response['items'][0][...]
FirstChannelId(reply) == reply.items[1].channelId

Pending      == [kind |-> "pending", value |-> <<>>]
ReturnNone   == [kind |-> "return_None", value |-> <<>>]
ReturnId(id) == [kind |-> "return", value |-> id]

\* the strategy tried after each one fails (the order of the try blocks)
AfterHandleSearch == "for_username"
AfterForUsername  == "general_search"

----------------------------------------------------------------------------
(* YouTubeAPI.get_channel_id: the inputs and the steps *)

Schemes    == { <<>>, HTTP, HTTPS }
WwwParts   == { <<>>, WWW }
Hosts      == { <<"y">>, <<"[">> }
PathPieces == { CHANNEL, C_SEG, USER_SEG, AT_SEG, SLASH, <<"a">> }

RECURSIVE Paths(_)
Paths(n) ==
    IF n = 0 THEN { <<>> }
    ELSE Paths(n - 1) \cup { p \o x : p \in Paths(n - 1), x \in PathPieces }

\* the channel URLs a caller passes
Inputs == { s \o w \o h \o p :
              s \in Schemes, w \in WwwParts, h \in Hosts, p \in Paths(MaxSegs) }

\* no operation of Config has run yet
NoOperation ==
    [op |-> "none", outcome |-> "none", inst |-> 0, name |-> <<>>,
     ran_init |-> FALSE, was_initialized |-> FALSE, created |-> {}, mkdir_fails |-> 0]

\* Config is not used: the class attributes are as the class body leaves them
ConfigIdle ==
    /\ env = [BASE_DIR |-> <<>>, YOUTUBE_API_KEY |-> <<>>, DOWNLOAD_DIR |-> <<>>,
              TRANSCRIPT_DIR |-> <<>>, CREDENTIALS_PATH |-> <<>>]
    /\ dirs = {}
    /\ cls_instance = 0 /\ cls_initialized = FALSE
    /\ objs = <<>> /\ c_calls = 0 /\ c_assigns = 0 /\ c_setenvs = 0
    /\ c_last = NoOperation
    /\ epoch_returned = {} /\ epoch_inits = 0 /\ epoch_done = 0
    /\ prev_returned = {} /\ c_done = {} /\ c_snap = <<>>

\* main has not been started
MainIdle ==
    /\ mpc = "idle" /\ m_rounds = 0 /\ m_channel_id = "" /\ m_videos = <<>>
    /\ m_shown = 0 /\ m_error = "none" /\ printed = <<>>

\* get_channel_videos has not been called
ListerIdle ==
    /\ max_results = 0 /\ upstream = 0 /\ cursor = 0 /\ lpc = "idle"
    /\ request = [built |-> FALSE, maxResults |-> 0, pageToken |-> "unset"]
    /\ response = [items |-> <<>>, token |-> "absent"]
    /\ pending = <<>> /\ videos = <<>> /\ executed = <<>> /\ fetched = <<>>
    /\ honoured = TRUE /\ tokens = <<>>
    /\ lresult = [kind |-> "pending", value |-> <<>>]
    /\ flaw = [at |-> 0, field |-> "none"]

\* get_channel_id has not been called
ResolverIdle ==
    /\ url_in = <<>> /\ rpc = "idle" /\ channel_url = <<>> /\ username = <<>>
    /\ lookups = <<>> /\ replies = <<>>
    /\ rresult = [kind |-> "pending", value |-> <<>>]

\* the VideoDownloader of src/src/video_downloader.py has not been used
DownloaderIdle ==
    /\ d_urls = <<>> /\ dpc = "idle" /\ d_calls = <<>> /\ d_results = <<>>
    /\ d_result = [kind |-> "pending", value |-> <<>>]

\* no call of get_transcription has been made
NoTranscription ==
    [file |-> <<>>, id |-> "not_called", captions |-> "not_called",
     transcript |-> "not_called", save |-> "not_called", steps |-> <<>>,
     kind |-> "pending", value |-> FALSE, before |-> <<>>]

\* the TranscriptionHandler has not been used: the directory is empty
TranscriberIdle ==
    /\ t_count = 0 /\ t_last = NoTranscription /\ t_files = <<>>

\* the selection prompt has not been shown
SelectionIdle ==
    /\ s_prompts = 0 /\ s_last = [text |-> <<>>, before |-> 0, mode |-> "none"]
    /\ s_downloads = <<>> /\ s_transcribed = <<>>

\* youtube_channel_manager/src/video_downloader.py lines 18-19: the format
\* the constructor configures
ConfiguredFormat == "best"

\* the VideoDownloader of youtube_channel_manager is as its constructor
\* leaves it
CmDownloaderIdle ==
    /\ x_format = ConfiguredFormat /\ xpc = "idle" /\ x_calls = 0
    /\ x_attempt = 0 /\ x_tried = <<>>
    /\ x_last = [kind |-> "pending", value |-> FALSE]

\* the components outside the channel lookup, the listing, main and Config
OthersIdle ==
    /\ DownloaderIdle
    /\ TranscriberIdle
    /\ SelectionIdle
    /\ CmDownloaderIdle

ResolveInit ==
    /\ url_in \in Inputs
    /\ rpc = "idle"
    /\ channel_url = <<>>
    /\ username = <<>>
    /\ lookups = <<>>
    /\ replies = <<>>
    /\ rresult = Pending
    /\ ListerIdle
    /\ MainIdle
    /\ ConfigIdle
    /\ OthersIdle

\* (mutant) the outer except clause lets the exception through
OuterExcept_reraises(err) == [kind |-> "raise", value |-> err]

\* lines 107-109: except Exception as e: print(...); return None
OuterExcept(err) == ReturnNone

\* lines 25-56 and 104-109: everything get_channel_id does before its first
\* request. An exception raised here (urlparse) is caught by the outer
\* except clause, which returns None.
get_channel_id ==
    /\ rpc = "idle"
    /\ LET u == Normalize(url_in)
       IN /\ channel_url' = u
          /\ IF UrlparseRaises(u)
             THEN /\ rpc' = "done" /\ rresult' = OuterExcept("ValueError")
                  /\ UNCHANGED username
             ELSE IF HasChannelSegment(u)
             THEN /\ rpc' = "done" /\ rresult' = ReturnId(ChannelSegment(u))
                  /\ UNCHANGED username
             ELSE IF IsHandleForm(u)
             THEN /\ rpc' = "handle_search" /\ username' = ExtractUsername(u)
                  /\ UNCHANGED rresult
             ELSE /\ rpc' = "done" /\ rresult' = ReturnNone
                  /\ UNCHANGED username
    /\ UNCHANGED <<url_in, lookups, replies, lvars, mvars, cvars, ovars>>

\* (mutant) an exception of execute() is not caught by the try block's own
\* except clause: the outer one ends the call with None
TryStrategy_abortsOnError(req, reply, next) ==
    /\ lookups' = Append(lookups, req)
    /\ replies' = Append(replies, reply)
    /\ IF Yields(reply)
       THEN rpc' = "done" /\ rresult' = ReturnId(FirstChannelId(reply))
       ELSE IF next = "done" \/ reply.kind = "error"
       THEN rpc' = "done" /\ rresult' = ReturnNone
       ELSE rpc' = next /\ UNCHANGED rresult
    /\ UNCHANGED <<url_in, channel_url, username, lvars, mvars, cvars, ovars>>

\* One try block of the chain: execute the request; return the first item's
\* channel id, or go on to `next` ("done": lines 104-105, return None).
TryStrategy(req, reply, next) ==
    /\ lookups' = Append(lookups, req)
    /\ replies' = Append(replies, reply)
    /\ IF Yields(reply)
       THEN rpc' = "done" /\ rresult' = ReturnId(FirstChannelId(reply))
       ELSE IF next = "done"
       THEN rpc' = "done" /\ rresult' = ReturnNone
       ELSE rpc' = next /\ UNCHANGED rresult
    /\ UNCHANGED <<url_in, channel_url, username, lvars, mvars, cvars, ovars>>

\* lines 58-72
handle_search ==
    /\ rpc = "handle_search"
    /\ \E reply \in Replies :
         TryStrategy(HandleSearchRequest(username), reply, AfterHandleSearch)

\* lines 74-86
for_username ==
    /\ rpc = "for_username"
    /\ \E reply \in Replies :
         TryStrategy(ForUsernameRequest(username), reply, AfterForUsername)

\* lines 88-105
general_search ==
    /\ rpc = "general_search"
    /\ \E reply \in Replies :
         TryStrategy(GeneralSearchRequest(username), reply, "done")

ResolveNext ==
    \/ get_channel_id
    \/ handle_search
    \/ for_username
    \/ general_search

ResolveSpec == ResolveInit /\ [][ResolveNext]_vars

\* Channel URLs in which the text of a scheme or "www." occurs again after
\* the host (a URL pasted into a path or a query)
NormPieces == PathPieces \cup { HTTP, HTTPS, WWW }

RECURSIVE NormPaths(_)
NormPaths(n) ==
    IF n = 0 THEN { <<>> }
    ELSE NormPaths(n - 1) \cup { p \o x : p \in NormPaths(n - 1), x \in NormPieces }

NormInputs == { s \o w \o h \o p :
                  s \in Schemes, w \in WwwParts, h \in Hosts, p \in NormPaths(MaxNormSegs) }

NormalizeInit ==
    /\ url_in \in NormInputs
    /\ rpc = "idle"
    /\ channel_url = <<>>
    /\ username = <<>>
    /\ lookups = <<>>
    /\ replies = <<>>
    /\ rresult = Pending
    /\ ListerIdle
    /\ MainIdle
    /\ ConfigIdle
    /\ OthersIdle

\* get_channel_id on those URLs
NormalizeSpec == NormalizeInit /\ [][ResolveNext]_vars

----------------------------------------------------------------------------
(* youtube_channel_manager's YouTubeAPI.get_channel_id, the second copy of *)
(* the resolver: no "www." pass, and a chain of two lookups.               *)

\* youtube_channel_manager lines 25-27
CmNormalize(u) ==
    IF ~(StartsWith(u, HTTP) \/ StartsWith(u, HTTPS)) THEN HTTPS \o u ELSE u

\* youtube_channel_manager lines 24-42 and 70-74
cm_get_channel_id ==
    /\ rpc = "idle"
    /\ LET u == CmNormalize(url_in)
       IN /\ channel_url' = u
          /\ IF UrlparseRaises(u)
             THEN /\ rpc' = "done" /\ rresult' = OuterExcept("ValueError")
                  /\ UNCHANGED username
             ELSE IF HasChannelSegment(u)
             THEN /\ rpc' = "done" /\ rresult' = ReturnId(ChannelSegment(u))
                  /\ UNCHANGED username
             ELSE IF IsHandleForm(u)
             THEN /\ rpc' = "cm_for_username" /\ username' = ExtractUsername(u)
                  /\ UNCHANGED rresult
             ELSE /\ rpc' = "done" /\ rresult' = ReturnNone
                  /\ UNCHANGED username
    /\ UNCHANGED <<url_in, lookups, replies, lvars, mvars, cvars, ovars>>

\* youtube_channel_manager lines 44-54: forUsername is tried first
cm_for_username ==
    /\ rpc = "cm_for_username"
    /\ \E reply \in Replies :
         TryStrategy(ForUsernameRequest(username), reply, "cm_search")

\* youtube_channel_manager lines 56-70: then a search for the bare name
cm_search ==
    /\ rpc = "cm_search"
    /\ \E reply \in Replies :
         TryStrategy(GeneralSearchRequest(username), reply, "done")

CmResolveNext ==
    \/ cm_get_channel_id
    \/ cm_for_username
    \/ cm_search

CmResolveSpec == ResolveInit /\ [][CmResolveNext]_vars

----------------------------------------------------------------------------
(* YouTubeAPI.get_channel_videos *)

\* line 146: the API limit per request
PageCap == 50

Min(a, b) == IF a <= b THEN a ELSE b

\* the request variable: None, or a built search().list(...) request
NoRequest == [built |-> FALSE, maxResults |-> 0, pageToken |-> "unset"]

\* lines 143-149: the first request carries no pageToken
FirstRequest(max) ==
    [built |-> TRUE, maxResults |-> Min(PageCap, max), pageToken |-> "unset"]

\* (mutant) the records already accumulated are not subtracted
NextRequest_asksFull(max, have, token) ==
    [built |-> TRUE, maxResults |-> Min(PageCap, max), pageToken |-> token]

\* lines 168-175: the request for the next page
NextRequest(max, have, token) ==
    [built |-> TRUE, maxResults |-> Min(PageCap, max - have), pageToken |-> token]

\* (mutant) the loop condition forgets the limit
LoopContinues_noLimit(req, vids, max) == req.built

\* line 151: while request and len(videos) < max_results
LoopContinues(req, vids, max) == req.built /\ Len(vids) < max

\* (mutant) the next page is asked for whether or not a token came
WantsNextPage_ignoresToken(resp, vids, max) == Len(vids) < max

\* line 167: 'nextPageToken' in response and len(videos) < max_results
\* (a key whose value is None is in the response)
WantsNextPage(resp, vids, max) == resp.token # "absent" /\ Len(vids) < max

\* (mutant) the for loop never breaks
LoopBreaks_never(vids, max) == FALSE

\* line 155: if len(videos) >= max_results: break
LoopBreaks(vids, max) == Len(vids) >= max

\* (mutant) the record is put at the front of the list
AppendVideo_atFront(vids, item) == <<item>> \o vids

\* lines 158-164: video_info is built from the item and appended
AppendVideo(vids, item) == Append(vids, item)

\* the arguments and the channels of the model
ScenarioResults == PageCap + 25
MaxResultsValues == (-1)..MaxSmallResults \cup { PageCap + 1, ScenarioResults }
UpstreamValues == 0..MaxSmallUpstream \cup { ScenarioResults + 1 }

\* The search endpoint (request.execute(), line 152; the mocks of
\* tests/test_youtube_api.py lines 223-266): it hands out the channel's
\* videos in upstream order, videos being numbered 1..upstream. A page holds
\* k further videos; nextPageToken is absent, None or a token.
Slice(from, k) == [i \in 1..k |-> from + i]
PageSizes(asked, avail) ==
    { 0, Min(1, avail), Min(asked, avail), Min(asked + 1, avail) }
TokenValues == { "absent", "None", "token" }

\* The endpoint keeps to its contract when a page holds as many videos as
\* were asked for (or all that are left) and carries a token exactly when
\* videos are left.
KeepsContract(asked, k, token) ==
    /\ k = Min(asked, upstream - cursor)
    /\ token = IF cursor + k < upstream THEN "token" ELSE "absent"

\* lines 158-163: the fields of a raw item that video_info is built from,
\* each read by plain indexing: item['id']['videoId'],
\* item['snippet']['title'], item['snippet']['description'],
\* item['snippet']['publishedAt']
ItemFields ==
    { "id.videoId", "snippet.title", "snippet.description", "snippet.publishedAt" }

\* every raw item of the channel is complete
NoFlaw == [at |-> 0, field |-> "none"]

\* the channels with at most one incomplete raw item: video `at` lacks `field`
Flaws == { NoFlaw } \cup [at : 1..MaxFlawAt, field : ItemFields]

\* the raw item of video `item` has no such field
Lacks(item, field) == flaw.at = item /\ flaw.field = field

\* (mutant) a field that is missing is read as the empty string
MapRaises_never(item) == FALSE

\* lines 158-163: indexing a missing field raises KeyError
MapRaises(item) == \E f \in ItemFields : Lacks(item, f)

ReturnList(vids) == [kind |-> "return", value |-> vids]

\* (mutant) the except clause re-raises what it caught
Reraise_unmodified(err) == err

\* lines 181-182: except Exception as e: raise Exception(f"Failed to
\* retrieve videos: {str(e)}"): whatever was caught, the caller gets a new
\* object of class Exception
Reraise(err) == "Exception"

\* the call ends with the exception the except clause raises
RaiseException(err) == [kind |-> "raise", value |-> <<>>, error |-> Reraise(err)]

\* the record kept of an executed request: what it asked for, and how many
\* records videos held when it was executed
Executed(req, vids) ==
    [maxResults |-> req.maxResults, pageToken |-> req.pageToken, have |-> Len(vids)]

ListInit ==
    /\ max_results \in MaxResultsValues
    /\ upstream \in UpstreamValues
    /\ cursor = 0
    /\ lpc = "idle"
    /\ request = NoRequest
    /\ response = [items |-> <<>>, token |-> "absent"]
    /\ pending = <<>>
    /\ videos = <<>>
    /\ executed = <<>>
    /\ fetched = <<>>
    /\ honoured = TRUE
    /\ tokens = <<>>
    /\ lresult = [kind |-> "pending", value |-> <<>>]
    /\ flaw \in Flaws
    /\ flaw.at # 0 => (flaw.at <= upstream /\ upstream <= MaxSmallUpstream
                                           /\ max_results <= MaxSmallResults)
    /\ url_in = <<>> /\ rpc = "idle" /\ channel_url = <<>> /\ username = <<>>
    /\ lookups = <<>> /\ replies = <<>> /\ rresult = Pending
    /\ MainIdle
    /\ ConfigIdle
    /\ OthersIdle

\* lines 141-149: videos = [] and the first request is built (not executed)
get_channel_videos ==
    /\ lpc = "idle"
    /\ videos' = <<>>
    /\ request' = FirstRequest(max_results)
    /\ lpc' = "while"
    /\ UNCHANGED <<max_results, upstream, cursor, response, pending, executed,
                   fetched, honoured, tokens, lresult, flaw, rvars, mvars, cvars, ovars>>

\* lines 151-152: the loop condition holds and request.execute() returns
execute ==
    /\ lpc = "while"
    /\ LoopContinues(request, videos, max_results)
    /\ Len(executed) < MaxRequests
    /\ \E k \in PageSizes(request.maxResults, upstream - cursor), t \in TokenValues :
         /\ response' = [items |-> Slice(cursor, k), token |-> t]
         /\ pending' = Slice(cursor, k)
         /\ fetched' = fetched \o Slice(cursor, k)
         /\ cursor' = cursor + k
         /\ tokens' = Append(tokens, t)
         /\ honoured' = (honoured /\ KeepsContract(request.maxResults, k, t))
    /\ executed' = Append(executed, Executed(request, videos))
    /\ lpc' = "for"
    /\ UNCHANGED <<max_results, upstream, request, videos, lresult, flaw, rvars, mvars, cvars, ovars>>

\* lines 152, 181-182: request.execute() raises; the except clause raises
\* Exception("Failed to retrieve videos: ...")
execute_raises ==
    /\ lpc = "while"
    /\ LoopContinues(request, videos, max_results)
    /\ Len(executed) < MaxRequests
    /\ executed' = Append(executed, Executed(request, videos))
    /\ tokens' = Append(tokens, "error")
    /\ lresult' = RaiseException("HttpError")
    /\ lpc' = "done"
    /\ UNCHANGED <<max_results, upstream, cursor, request, response, pending,
                   videos, fetched, honoured, flaw, rvars, mvars, cvars, ovars>>

\* lines 154-164: one pass of the for loop that appends
for_append ==
    /\ lpc = "for"
    /\ pending # <<>>
    /\ ~LoopBreaks(videos, max_results)
    /\ ~MapRaises(Head(pending))
    /\ videos' = AppendVideo(videos, Head(pending))
    /\ pending' = Tail(pending)
    /\ UNCHANGED <<max_results, upstream, cursor, lpc, request, response,
                   executed, fetched, honoured, tokens, lresult, flaw, rvars, mvars, cvars, ovars>>

\* lines 158-163, 181-182: building video_info raises KeyError; the except
\* clause ends the call with Exception("Failed to retrieve videos: ...")
for_raises ==
    /\ lpc = "for"
    /\ pending # <<>>
    /\ ~LoopBreaks(videos, max_results)
    /\ MapRaises(Head(pending))
    /\ lresult' = RaiseException("KeyError")
    /\ lpc' = "done"
    /\ UNCHANGED <<max_results, upstream, cursor, request, response, pending,
                   videos, executed, fetched, honoured, tokens, flaw, rvars, mvars, cvars, ovars>>

\* lines 166-177: the for loop is over (items exhausted, or the break of
\* lines 155-156); the next request is built, or request = None
next_page ==
    /\ lpc = "for"
    /\ pending = <<>> \/ LoopBreaks(videos, max_results)
    /\ pending' = <<>>
    /\ request' = IF WantsNextPage(response, videos, max_results)
                  THEN NextRequest(max_results, Len(videos), response.token)
                  ELSE NoRequest
    /\ lpc' = "while"
    /\ UNCHANGED <<max_results, upstream, cursor, response, videos, executed,
                   fetched, honoured, tokens, lresult, flaw, rvars, mvars, cvars, ovars>>

\* lines 151, 179: the loop condition fails and videos is returned
return_videos ==
    /\ lpc = "while"
    /\ ~LoopContinues(request, videos, max_results)
    /\ lresult' = ReturnList(videos)
    /\ lpc' = "done"
    /\ UNCHANGED <<max_results, upstream, cursor, request, response, pending,
                   videos, executed, fetched, honoured, tokens, flaw, rvars, mvars, cvars, ovars>>

ListNext ==
    \/ get_channel_videos
    \/ execute
    \/ execute_raises
    \/ for_append
    \/ for_raises
    \/ next_page
    \/ return_videos

ListSpec == ListInit /\ [][ListNext]_vars

----------------------------------------------------------------------------
(* YouTubeAPI.get_channel_videos_old (lines 184-220), which is also, line  *)
(* for line, youtube_channel_manager's YouTubeAPI.get_channel_videos       *)
(* (lines 76-112): no max_results, every page asks for 50 items, and the   *)
(* loop runs until a response carries no next_page_token.                  *)

\* lines 194-201: the request built at the top of the loop
OldRequest(token) == [built |-> TRUE, maxResults |-> PageCap, pageToken |-> token]

\* lines 205-210: the fields of a raw item the record is built from
OldItemFields == { "snippet.title", "id.videoId" }

\* lines 205-210: indexing a missing field raises KeyError
OldMapRaises(item) == \E f \in OldItemFields : Lacks(item, f)

\* lines 212-214: next_page_token = response.get('nextPageToken');
\* if not next_page_token: break
OldLoopEnds(resp) == resp.token \in { "absent", "None" }

\* lines 218-220: except HttpError: print(...); return None
ReturnsNone == [kind |-> "return_None", value |-> <<>>]

\* an exception the function does not catch reaches the caller as it is
Propagates(err) == [kind |-> "raise", value |-> <<>>, error |-> err]

OldListInit ==
    /\ max_results = 0
    /\ upstream \in UpstreamValues
    /\ cursor = 0
    /\ lpc = "idle"
    /\ request = NoRequest
    /\ response = [items |-> <<>>, token |-> "absent"]
    /\ pending = <<>>
    /\ videos = <<>>
    /\ executed = <<>>
    /\ fetched = <<>>
    /\ honoured = TRUE
    /\ tokens = <<>>
    /\ lresult = [kind |-> "pending", value |-> <<>>]
    /\ flaw \in Flaws
    /\ flaw.at # 0 => (flaw.at <= upstream /\ upstream <= MaxSmallUpstream)
    /\ url_in = <<>> /\ rpc = "idle" /\ channel_url = <<>> /\ username = <<>>
    /\ lookups = <<>> /\ replies = <<>> /\ rresult = Pending
    /\ MainIdle
    /\ ConfigIdle
    /\ OthersIdle

\* lines 190-201: videos = [], next_page_token = None, and the first pass
\* of the loop builds its request with pageToken=None
get_channel_videos_old ==
    /\ lpc = "idle"
    /\ videos' = <<>>
    /\ request' = OldRequest("None")
    /\ lpc' = "old_while"
    /\ UNCHANGED <<max_results, upstream, cursor, response, pending, executed,
                   fetched, honoured, tokens, lresult, flaw, rvars, mvars, cvars, ovars>>

\* line 202: request.execute() returns a response that has items
old_execute ==
    /\ lpc = "old_while"
    /\ Len(executed) < MaxRequests
    /\ \E k \in PageSizes(request.maxResults, upstream - cursor), t \in TokenValues :
         /\ response' = [items |-> Slice(cursor, k), token |-> t]
         /\ pending' = Slice(cursor, k)
         /\ fetched' = fetched \o Slice(cursor, k)
         /\ cursor' = cursor + k
         /\ tokens' = Append(tokens, t)
         /\ honoured' = (honoured /\ KeepsContract(request.maxResults, k, t))
    /\ executed' = Append(executed, Executed(request, videos))
    /\ lpc' = "old_for"
    /\ UNCHANGED <<max_results, upstream, request, videos, lresult, flaw, rvars, mvars, cvars, ovars>>

\* lines 202, 218-220: request.execute() raises HttpError, which is printed
\* and turned into the result None
old_execute_raises ==
    /\ lpc = "old_while"
    /\ Len(executed) < MaxRequests
    /\ executed' = Append(executed, Executed(request, videos))
    /\ tokens' = Append(tokens, "error")
    /\ lresult' = ReturnsNone
    /\ lpc' = "done"
    /\ UNCHANGED <<max_results, upstream, cursor, request, response, pending,
                   videos, fetched, honoured, flaw, rvars, mvars, cvars, ovars>>

\* lines 202-204: the response has no 'items' key; response['items'] raises
\* KeyError, which except HttpError does not catch
old_items_missing ==
    /\ lpc = "old_while"
    /\ Len(executed) < MaxRequests
    /\ executed' = Append(executed, Executed(request, videos))
    /\ tokens' = Append(tokens, "no items")
    /\ lresult' = Propagates("KeyError")
    /\ lpc' = "done"
    /\ UNCHANGED <<max_results, upstream, cursor, request, response, pending,
                   videos, fetched, honoured, flaw, rvars, mvars, cvars, ovars>>

\* lines 204-210: one pass of the for loop (it has no break)
old_for_append ==
    /\ lpc = "old_for"
    /\ pending # <<>>
    /\ ~OldMapRaises(Head(pending))
    /\ videos' = AppendVideo(videos, Head(pending))
    /\ pending' = Tail(pending)
    /\ UNCHANGED <<max_results, upstream, cursor, lpc, request, response,
                   executed, fetched, honoured, tokens, lresult, flaw, rvars, mvars, cvars, ovars>>

\* lines 205-209: building the record raises KeyError, which except
\* HttpError does not catch
old_for_raises ==
    /\ lpc = "old_for"
    /\ pending # <<>>
    /\ OldMapRaises(Head(pending))
    /\ lresult' = Propagates("KeyError")
    /\ lpc' = "done"
    /\ UNCHANGED <<max_results, upstream, cursor, request, response, pending,
                   videos, executed, fetched, honoured, tokens, flaw, rvars, mvars, cvars, ovars>>

\* lines 212-216: the for loop is over; the loop ends and videos is
\* returned, or the next pass builds its request with the token received
old_next_page ==
    /\ lpc = "old_for"
    /\ pending = <<>>
    /\ IF OldLoopEnds(response)
       THEN /\ lresult' = ReturnList(videos)
            /\ lpc' = "done"
            /\ UNCHANGED request
       ELSE /\ request' = OldRequest(response.token)
            /\ lpc' = "old_while"
            /\ UNCHANGED lresult
    /\ UNCHANGED <<max_results, upstream, cursor, response, pending, videos,
                   executed, fetched, honoured, tokens, flaw, rvars, mvars, cvars, ovars>>

OldListNext ==
    \/ get_channel_videos_old
    \/ old_execute
    \/ old_execute_raises
    \/ old_items_missing
    \/ old_for_append
    \/ old_for_raises
    \/ old_next_page

OldListSpec == OldListInit /\ [][OldListNext]_vars

----------------------------------------------------------------------------
(* main of src/main.py: the channel-URL prompt, the two calls to          *)
(* YouTubeAPI, and the loop that displays the records                     *)

\* youtube_api.py lines 158-163: the keys of a record of get_channel_videos
VideoInfoKeys == { "video_id", "title", "description", "published_at" }

\* youtube_api.py lines 205-209: the keys of a record of
\* get_channel_videos_old
OldVideoKeys == { "title", "video_id", "url" }

\* main.py line 51: the records main lists are those of get_channel_videos
ListedKeys == VideoInfoKeys

\* main.py lines 60-61: the keys the display loop reads, video['title'] and
\* then video['url']
DisplayKeys == { "title", "url" }

\* main.py lines 60-61: reading a key a record does not have raises KeyError
DisplayRaises == ~(DisplayKeys \subseteq ListedKeys)

\* main.py line 36: what input() gives at the channel-URL prompt: 'q', some
\* other text, Ctrl-C (KeyboardInterrupt) or end of input (EOFError)
UrlPromptInputs == { "q", "url", "KeyboardInterrupt", "EOFError" }

\* main.py line 44: get_channel_id returns None or a channel id
ResolveOutcomes == { ReturnNone, ReturnId(UC1) }

\* main.py line 51: get_channel_videos(channel_id) raises or returns a list
ListingOutcomes ==
    { RaiseException("HttpError") } \cup { ReturnList(Slice(0, n)) : n \in 0..MaxListed }

\* main.py lines 108-113: the except clauses and the finally clause print
\* and main ends
Ends(err, out) ==
    /\ mpc' = "exit"
    /\ m_error' = err
    /\ printed' = printed \o out \o <<"Thank you">>

MainInit ==
    /\ mpc = "start" /\ m_rounds = 0 /\ m_channel_id = "" /\ m_videos = <<>>
    /\ m_shown = 0 /\ m_error = "none" /\ printed = <<>>
    /\ url_in = <<>> /\ rpc = "idle" /\ channel_url = <<>> /\ username = <<>>
    /\ lookups = <<>> /\ replies = <<>> /\ rresult = Pending
    /\ ListerIdle
    /\ ConfigIdle
    /\ OthersIdle

\* main.py lines 23-32: the configuration is loaded, the welcome message
\* printed, the three components built; any exception ends main
main ==
    /\ mpc = "start"
    /\ \E ok \in BOOLEAN :
         IF ok
         THEN /\ mpc' = "url_prompt"
              /\ printed' = Append(printed, "welcome")
              /\ UNCHANGED m_error
         ELSE Ends("Exception", <<"An error occurred">>)
    /\ UNCHANGED <<m_rounds, m_channel_id, m_videos, m_shown, rvars, lvars, cvars, ovars>>

\* main.py lines 34-43: the channel-URL prompt
main_url_prompt ==
    /\ mpc = "url_prompt"
    /\ m_rounds < MaxRounds
    /\ m_rounds' = m_rounds + 1
    /\ \E in \in UrlPromptInputs :
         CASE in = "q" -> Ends("none", <<"Thank you">>)
           [] in = "KeyboardInterrupt" -> Ends(in, <<"Operation cancelled">>)
           [] in = "EOFError" -> Ends(in, <<"An error occurred">>)
           [] in = "url" -> /\ mpc' = "resolve"
                            /\ printed' = Append(printed, "Fetching channel information")
                            /\ UNCHANGED m_error
    /\ UNCHANGED <<m_channel_id, m_videos, m_shown, rvars, lvars, cvars, ovars>>

\* main.py lines 44-50: get_channel_id, and back to the prompt without an id
main_resolve ==
    /\ mpc = "resolve"
    /\ \E r \in ResolveOutcomes :
         IF r = ReturnNone
         THEN /\ mpc' = "url_prompt"
              /\ m_channel_id' = "None"
              /\ printed' = Append(printed, "Could not find channel ID")
         ELSE /\ mpc' = "list"
              /\ m_channel_id' = r.value
              /\ printed' = Append(printed, "Fetching videos")
    /\ UNCHANGED <<m_rounds, m_videos, m_shown, m_error, rvars, lvars, cvars, ovars>>

\* main.py lines 51-58: get_channel_videos, and back to the prompt with an
\* empty list; an exception ends main
main_list ==
    /\ mpc = "list"
    /\ \E r \in ListingOutcomes :
         IF r.kind = "raise"
         THEN Ends(r.error, <<"An error occurred">>) /\ UNCHANGED <<m_videos, m_shown>>
         ELSE /\ m_videos' = r.value
              /\ m_shown' = 0
              /\ UNCHANGED m_error
              /\ IF r.value = <<>>
                 THEN mpc' = "url_prompt" /\ printed' = Append(printed, "No videos found")
                 ELSE mpc' = "display" /\ printed' = Append(printed, "Found videos")
    /\ UNCHANGED <<m_rounds, m_channel_id, rvars, lvars, cvars, ovars>>

\* main.py lines 59-61: one pass of the display loop, which prints the title
\* and then the URL; after the last record the selection prompt follows
main_display ==
    /\ mpc = "display"
    /\ IF m_shown = Len(m_videos)
       THEN /\ mpc' = "select_prompt"
            /\ printed' = Append(printed, "Options")
            /\ UNCHANGED <<m_shown, m_error>>
       ELSE IF DisplayRaises
       THEN Ends("KeyError", <<"title", "An error occurred">>) /\ UNCHANGED m_shown
       ELSE /\ m_shown' = m_shown + 1
            /\ printed' = printed \o <<"title", "URL">>
            /\ UNCHANGED <<mpc, m_error>>
    /\ UNCHANGED <<m_rounds, m_channel_id, m_videos, rvars, lvars, cvars, ovars>>

MainNext ==
    \/ main
    \/ main_url_prompt
    \/ main_resolve
    \/ main_list
    \/ main_display

MainSpec == MainInit /\ [][MainNext]_vars

----------------------------------------------------------------------------
(* Config of src/src/config.py: the singleton, its initialization from    *)
(* the environment, the guard on private attributes, and reset().         *)
(* A path is the sequence of its components; an environment variable that *)
(* is unset (or empty) is <<>>. An attribute name is its first character  *)
(* followed by the rest of the name.                                      *)

\* the directories BASE_DIR may name: one that exists, one that does not
\* exist but whose parent does, one whose parent does not exist either
DIR_A == << "A" >>
DIR_B == << "B" >>
DIR_X == << "nowhere", "X" >>

BaseDirValues == { <<>>, DIR_A, DIR_B, DIR_X }
ApiKeyValues  == { <<>>, << "k1" >> }

\* the environments of the model: BASE_DIR and YOUTUBE_API_KEY vary;
\* DOWNLOAD_DIR, TRANSCRIPT_DIR and CREDENTIALS_PATH are left unset, so
\* lines 70-83 take the defaults below the base directory
Environments ==
    [BASE_DIR : BaseDirValues, YOUTUBE_API_KEY : ApiKeyValues,
     DOWNLOAD_DIR : { <<>> }, TRANSCRIPT_DIR : { <<>> },
     CREDENTIALS_PATH : { <<>> }]

\* the variables a caller changes between two calls
ChangedVariables == { "BASE_DIR", "YOUTUBE_API_KEY" }

\* the attributes __init__ assigns (lines 55-83), and one a caller adds
BASE_DIR_ATTR    == << "_", "base_dir" >>
API_KEY_ATTR     == << "_", "api_key" >>
DOWNLOADS_ATTR   == << "_", "downloads_dir" >>
TRANSCRIPTS_ATTR == << "_", "transcripts_dir" >>
CREDENTIALS_ATTR == << "_", "credentials_path" >>
NOTE_ATTR        == << "n", "ote" >>
PrivateAttrs ==
    { BASE_DIR_ATTR, API_KEY_ATTR, DOWNLOADS_ATTR, TRANSCRIPTS_ATTR, CREDENTIALS_ATTR }
AttrNames == PrivateAttrs \cup { NOTE_ATTR }

\* the attributes callers try to assign
AssignedByCallers == { API_KEY_ATTR, NOTE_ATTR }

\* lines 38-41: a new instance has no attribute of its own
NewObject == [n \in AttrNames |-> <<>>]

\* Path.exists(), Path.parent; the root exists
Exists(path, d) == path = <<>> \/ path \in d
Parent(path) == SubSeq(path, 1, Len(path) - 1)

\* line 104: directory.mkdir(parents=True, exist_ok=True)
Mkdir(path, d) == d \cup { SubSeq(path, 1, k) : k \in 1..Len(path) }

\* lines 70-83: Path(value).resolve() when the variable is set, else the
\* default below the base directory
PathOrDefault(value, base, leaf) == IF value # <<>> THEN value ELSE base \o << leaf >>

\* os.getenv of a variable that is unset gives None
Getenv(value) == IF value = <<>> THEN << "None" >> ELSE value

\* (mutant) the API key is validated before the base directory path
Validate_keyFirst(e, d) ==
    IF e.BASE_DIR = <<>> THEN "ValueError: BASE_DIR"
    ELSE IF e.YOUTUBE_API_KEY = <<>> THEN "ValueError: YOUTUBE_API_KEY"
    ELSE IF ~Exists(e.BASE_DIR, d) /\ ~Exists(Parent(e.BASE_DIR), d)
    THEN "PermissionError: base directory"
    ELSE "ok"

\* lines 51-62: the three checks of __init__, in its order
Validate(e, d) ==
    IF e.BASE_DIR = <<>> THEN "ValueError: BASE_DIR"
    ELSE IF ~Exists(e.BASE_DIR, d) /\ ~Exists(Parent(e.BASE_DIR), d)
    THEN "PermissionError: base directory"
    ELSE IF e.YOUTUBE_API_KEY = <<>> THEN "ValueError: YOUTUBE_API_KEY"
    ELSE "ok"

\* lines 55-83: the attributes of the instance when __init__ ends with
\* `outcome`: an assignment made before a check fails stays
Assigned(obj, e, outcome) ==
    LET base == [obj EXCEPT ![BASE_DIR_ATTR] = e.BASE_DIR]
        key  == [base EXCEPT ![API_KEY_ATTR] = Getenv(e.YOUTUBE_API_KEY)]
    IN CASE outcome = "ValueError: BASE_DIR" -> obj
         [] outcome = "PermissionError: base directory" -> base
         [] outcome = "ValueError: YOUTUBE_API_KEY" -> key
         [] OTHER ->
              [key EXCEPT
                 ![DOWNLOADS_ATTR] = PathOrDefault(e.DOWNLOAD_DIR, e.BASE_DIR, "downloads"),
                 ![TRANSCRIPTS_ATTR] = PathOrDefault(e.TRANSCRIPT_DIR, e.BASE_DIR, "transcripts"),
                 ![CREDENTIALS_ATTR] = PathOrDefault(e.CREDENTIALS_PATH, e.BASE_DIR, "credentials.json")]

\* lines 86-88: the directories __init__ creates, in its order
Ensured(obj) == << obj[BASE_DIR_ATTR], obj[DOWNLOADS_ATTR], obj[TRANSCRIPTS_ATTR] >>

\* lines 86-88: the directories that exist after the first k of them were
\* created
RECURSIVE EnsureFirst(_, _, _)
EnsureFirst(paths, k, d) ==
    IF k = 0 THEN d ELSE Mkdir(paths[k], EnsureFirst(paths, k - 1, d))

\* (mutant) the body of __init__ runs at every call
InitRuns_always(initialized) == TRUE

\* line 46: if not self._initialized
InitRuns(initialized) == ~initialized

\* line 163: if self._initialized and name.startswith('_'); _initialized is
\* looked up on the instance and found on the class
SetattrRefused(initialized, name) == initialized /\ StartsWith(name, << "_" >>)

ConfigInit ==
    /\ env \in Environments
    /\ dirs = { DIR_A }
    /\ cls_instance = 0 /\ cls_initialized = FALSE
    /\ objs = <<>> /\ c_calls = 0 /\ c_assigns = 0 /\ c_setenvs = 0
    /\ c_last = NoOperation
    /\ epoch_returned = {} /\ epoch_inits = 0 /\ epoch_done = 0
    /\ prev_returned = {} /\ c_done = {} /\ c_snap = <<>>
    /\ url_in = <<>> /\ rpc = "idle" /\ channel_url = <<>> /\ username = <<>>
    /\ lookups = <<>> /\ replies = <<>> /\ rresult = Pending
    /\ ListerIdle
    /\ MainIdle
    /\ OthersIdle

\* lines 46-91: the body of __init__ on instance inst of os (the instances
\* after __new__); mkdir_fails = k > 0: the k-th mkdir of lines 86-88 raises
InitBody(inst, os, mkdir_fails) ==
    LET checked == Validate(env, dirs)
        obj == Assigned(os[inst], env, checked)
        made == IF checked # "ok" THEN dirs
                ELSE IF mkdir_fails = 0 THEN EnsureFirst(Ensured(obj), 3, dirs)
                ELSE EnsureFirst(Ensured(obj), mkdir_fails - 1, dirs)
        outcome == IF checked # "ok" THEN checked
                   ELSE IF mkdir_fails = 0 THEN "ok" ELSE "OSError: mkdir"
    IN /\ mkdir_fails > 0 =>
            /\ checked = "ok"
            /\ Ensured(obj)[mkdir_fails] \notin made
       /\ objs' = [os EXCEPT ![inst] = obj]
       /\ dirs' = made
       /\ cls_initialized' = (outcome = "ok")
       /\ epoch_inits' = epoch_inits + 1
       /\ epoch_done' = IF outcome = "ok" THEN epoch_done + 1 ELSE epoch_done
       /\ epoch_returned' = IF outcome = "ok" THEN epoch_returned \cup { inst }
                             ELSE epoch_returned
       /\ c_done' = IF outcome = "ok" THEN c_done \cup { inst } ELSE c_done
       /\ c_snap' = IF outcome = "ok"
                     THEN [i \in 1..Len(os) |-> IF i = inst THEN obj
                                                ELSE IF i <= Len(c_snap) THEN c_snap[i]
                                                ELSE NewObject]
                     ELSE [i \in 1..Len(os) |-> IF i <= Len(c_snap) THEN c_snap[i]
                                                ELSE NewObject]
       /\ c_last' = [op |-> "Config", outcome |-> outcome, inst |-> inst,
                     name |-> <<>>, ran_init |-> TRUE,
                     was_initialized |-> cls_initialized,
                     created |-> made \ dirs, mkdir_fails |-> mkdir_fails]

\* lines 38-91: Config(), that is __new__ and then __init__
Config ==
    /\ c_calls < MaxConfigCalls
    /\ cls_instance = 0 => Len(objs) < MaxInstances
    /\ c_calls' = c_calls + 1
    /\ LET inst == IF cls_instance = 0 THEN Len(objs) + 1 ELSE cls_instance
           os == IF cls_instance = 0 THEN Append(objs, NewObject) ELSE objs
       IN /\ cls_instance' = inst
          /\ IF InitRuns(cls_initialized)
             THEN \E mkdir_fails \in 0..3 : InitBody(inst, os, mkdir_fails)
             ELSE /\ objs' = os
                  /\ epoch_returned' = epoch_returned \cup { inst }
                  /\ c_last' = [op |-> "Config", outcome |-> "ok", inst |-> inst,
                                name |-> <<>>, ran_init |-> FALSE,
                                was_initialized |-> cls_initialized,
                                created |-> {}, mkdir_fails |-> 0]
                  /\ c_snap' = [i \in 1..Len(os) |-> IF i <= Len(c_snap) THEN c_snap[i]
                                                      ELSE NewObject]
                  /\ UNCHANGED <<dirs, cls_initialized, epoch_inits, epoch_done, c_done>>
    /\ UNCHANGED <<env, c_assigns, c_setenvs, prev_returned, rvars, lvars, mvars, ovars>>

\* lines 167-171: Config.reset()
reset ==
    /\ cls_instance' = 0
    /\ cls_initialized' = FALSE
    /\ prev_returned' = prev_returned \cup epoch_returned
    /\ epoch_returned' = {}
    /\ epoch_inits' = 0
    /\ epoch_done' = 0
    /\ c_last' = [NoOperation EXCEPT !.op = "reset", !.outcome = "ok"]
    /\ UNCHANGED <<env, dirs, objs, c_calls, c_assigns, c_setenvs, c_done, c_snap,
                   rvars, lvars, mvars, ovars>>

\* lines 161-165: a caller assigns an attribute of an instance it holds
setattr ==
    /\ c_assigns < MaxAssignments
    /\ c_assigns' = c_assigns + 1
    /\ \E inst \in 1..Len(objs), name \in AssignedByCallers :
         IF SetattrRefused(cls_initialized, name)
         THEN /\ c_last' = [NoOperation EXCEPT !.op = "setattr", !.inst = inst,
                               !.name = name, !.outcome = "AttributeError"]
              /\ UNCHANGED objs
         ELSE /\ c_last' = [NoOperation EXCEPT !.op = "setattr", !.inst = inst,
                               !.name = name, !.outcome = "ok"]
              /\ objs' = [objs EXCEPT ![inst][name] = << "changed" >>]
    /\ UNCHANGED <<env, dirs, cls_instance, cls_initialized, c_calls, c_setenvs,
                   epoch_returned, epoch_inits, epoch_done, prev_returned,
                   c_done, c_snap, rvars, lvars, mvars, ovars>>

\* the environment changes between two calls (the tests' monkeypatch.setenv
\* and monkeypatch.delenv)
setenv ==
    /\ c_setenvs < MaxSetenvs
    /\ c_setenvs' = c_setenvs + 1
    /\ \E e \in Environments :
         /\ \E v \in ChangedVariables :
              /\ e[v] # env[v]
              /\ \A w \in ChangedVariables \ { v } : e[w] = env[w]
         /\ env' = e
    /\ c_last' = [NoOperation EXCEPT !.op = "setenv", !.outcome = "ok"]
    /\ UNCHANGED <<dirs, cls_instance, cls_initialized, objs, c_calls, c_assigns,
                   epoch_returned, epoch_inits, epoch_done, prev_returned,
                   c_done, c_snap, rvars, lvars, mvars, ovars>>

ConfigNext ==
    \/ Config
    \/ reset
    \/ setattr
    \/ setenv

ConfigSpec == ConfigInit /\ [][ConfigNext]_vars

----------------------------------------------------------------------------
(* VideoDownloader of src/src/video_downloader.py: download_video and      *)
(* download_multiple_videos                                                *)

MaxUrls == 2
MaxSingleCalls == 1

\* the video URLs a caller passes
VideoUrls == {"watch?v=1", "watch?v=2"}
UrlLists == UNION { [1..n -> VideoUrls] : n \in 0..MaxUrls }

\* what ydl.extract_info(video_url, download=False) does: it returns the
\* info dict, None or an empty dict, or it raises
InfoOutcomes == {"info", "None", "empty", "raises"}

\* what ydl.download([video_url]) does
DownloadOutcomes == {"completes", "raises"}

\* (mutant) the information is never found missing
NotInfo_never(info) == FALSE

\* video_downloader.py line 53: not info
NotInfo(info) == info \in {"None", "empty"}

\* video_downloader.py lines 65-67: the except clause of download_video
DownloadFailed == [kind |-> "return", value |-> FALSE]

\* video_downloader.py lines 48-69: one call of download_video, given what
\* yt-dlp does; the record says what was called and how the call ended
download_video(url, by, info, dl) ==
    LET call == [url |-> url, by |-> by, info |-> info, download |-> "not_called"]
    IN IF info = "raises"
       THEN call @@ DownloadFailed
       ELSE IF NotInfo(info)
       THEN call @@ [kind |-> "return", value |-> FALSE]
       ELSE IF dl = "raises"
       THEN [call EXCEPT !.download = "raises"] @@ DownloadFailed
       ELSE [call EXCEPT !.download = "completes"] @@ [kind |-> "return", value |-> TRUE]

\* (mutant) the loop stops at the first failed download
LoopEnds_onFailure(urls, results) ==
    \/ Len(results) = Len(urls)
    \/ (results # <<>> /\ ~Last(results))

\* video_downloader.py line 84: the for loop has visited every URL
LoopEnds(urls, results) == Len(results) = Len(urls)

DownloadInit ==
    /\ d_urls \in UrlLists
    /\ dpc = "idle"
    /\ d_calls = <<>>
    /\ d_results = <<>>
    /\ d_result = Pending
    /\ TranscriberIdle
    /\ SelectionIdle
    /\ CmDownloaderIdle
    /\ ResolverIdle
    /\ ListerIdle
    /\ MainIdle
    /\ ConfigIdle

\* a caller calls download_video directly
call_download_video ==
    /\ dpc = "idle"
    /\ Len(d_calls) < MaxSingleCalls
    /\ \E url \in VideoUrls, info \in InfoOutcomes, dl \in DownloadOutcomes :
         d_calls' = Append(d_calls, download_video(url, "caller", info, dl))
    /\ UNCHANGED <<d_urls, dpc, d_results, d_result, rvars, lvars, mvars, cvars, tvars, svars, xvars>>

\* video_downloader.py lines 81-82: download_multiple_videos is called
download_multiple_videos ==
    /\ dpc = "idle"
    /\ dpc' = "for"
    /\ d_results' = <<>>
    /\ UNCHANGED <<d_urls, d_calls, d_result, rvars, lvars, mvars, cvars, tvars, svars, xvars>>

\* video_downloader.py lines 84-91: one iteration of the for loop
for_download_video ==
    /\ dpc = "for"
    /\ ~LoopEnds(d_urls, d_results)
    /\ \E info \in InfoOutcomes, dl \in DownloadOutcomes :
         LET call == download_video(d_urls[Len(d_results) + 1], "batch", info, dl)
         IN /\ d_calls' = Append(d_calls, call)
            /\ IF call.kind = "raise"
               THEN /\ dpc' = "done"
                    /\ d_result' = [kind |-> "raise", value |-> d_results]
                    /\ UNCHANGED d_results
               ELSE /\ d_results' = Append(d_results, call.value)
                    /\ UNCHANGED <<dpc, d_result>>
    /\ UNCHANGED <<d_urls, rvars, lvars, mvars, cvars, tvars, svars, xvars>>

\* video_downloader.py line 93: the loop is exhausted
return_results ==
    /\ dpc = "for"
    /\ LoopEnds(d_urls, d_results)
    /\ dpc' = "done"
    /\ d_result' = [kind |-> "return", value |-> d_results]
    /\ UNCHANGED <<d_urls, d_calls, d_results, rvars, lvars, mvars, cvars, tvars, svars, xvars>>

DownloadNext ==
    \/ call_download_video
    \/ download_multiple_videos
    \/ for_download_video
    \/ return_results

DownloadSpec == DownloadInit /\ [][DownloadNext]_vars

----------------------------------------------------------------------------
(* TranscriptionHandler of src/src/transcription_handler.py:               *)
(* get_transcription and the four methods it calls                         *)

MaxTitleLen == 2
MaxTranscriptions == 2

\* the characters of a video title: a letter, a character that is neither
\* alphanumeric nor one of ' ', '-', '_', and a space
TitleChars == {"a", "?", " "}
Titles == UNION { [1..n -> TitleChars] : n \in 0..MaxTitleLen }

\* the video_title argument when it is None
NoneTitle == <<"None">>

\* the video_title argument: a string, or None
TitleArguments == Titles \cup {NoneTitle}

\* str.rstrip()
RECURSIVE Rstrip(_)
Rstrip(s) ==
    IF s # <<>> /\ s[Len(s)] = " " THEN Rstrip(SubSeq(s, 1, Len(s) - 1)) ELSE s

\* transcription_handler.py lines 123-124: the name of the transcript file
SafeTitle(title) ==
    Rstrip(SelectSeq(title, LAMBDA c : c \in {"a", " "})) \o <<".txt">>

\* lines 39-43: has_captions returns True, or False (no manually created
\* transcript, or any exception)
CaptionOutcomes == {"True", "False"}

\* lines 20-27: get_video_id returns the id, or None (no 'id' key, or any
\* exception of extract_info), or an empty string
VideoIdOutcomes == {"id", "None", "empty"}

\* lines 56-59: get_transcript returns the entries, an empty list, or None
TranscriptOutcomes == {"entries", "empty", "None"}

\* lines 82-90: what happens inside save_transcript: the file is written; open
\* fails; format_transcript raises on an entry without 'start' after the file
\* was opened; the write fails part-way
SaveOutcomes == {"written", "open_fails", "format_raises", "write_fails"}

\* lines 82-90: the directory after save_transcript(transcript, file, True)
save_transcript(files, file, save) ==
    IF save = "open_fails"
    THEN files
    ELSE LET content == CASE save = "written" -> "transcript"
                          [] save = "format_raises" -> "empty"
                          [] save = "write_fails" -> "partial"
         IN [f \in (DOMAIN files) \cup {file} |->
                IF f = file THEN content ELSE files[f]]

\* (mutant) the caption check never stops the call
NoCaptions_never(caps) == FALSE

\* line 111: not self.has_captions(video_id)
NoCaptions(caps) == caps = "False"

\* lines 127-130: save_transcript returns None whatever happened and
\* get_transcription returns True after it
Saved(save) == TRUE

\* a step that was not reached has no outcome
NotCalled == "not_called"

\* what the steps of one call do: the outcome of each step that is reached
StepOutcomes ==
    { o \in [id : VideoIdOutcomes, captions : CaptionOutcomes \cup {NotCalled},
             transcript : TranscriptOutcomes \cup {NotCalled},
             save : SaveOutcomes \cup {NotCalled}] :
        /\ (o.captions = NotCalled) <=> (o.id # "id")
        /\ (o.transcript = NotCalled) <=> (o.captions # "True")
        /\ (o.save = NotCalled) <=> (o.transcript # "entries") }

\* lines 103-134: one call of get_transcription, given what its steps do
get_transcription(files, title, o) ==
    LET call == [NoTranscription EXCEPT !.before = files, !.kind = "return",
                                         !.id = o.id,
                                         !.steps = <<"get_video_id">>]
        c2   == [call EXCEPT !.captions = o.captions,
                             !.steps = @ \o <<"has_captions">>]
        c3   == [c2 EXCEPT !.transcript = o.transcript,
                           !.steps = @ \o <<"get_transcript">>]
        c4   == [c3 EXCEPT !.save = o.save, !.file = SafeTitle(title),
                           !.steps = @ \o <<"save_transcript">>]
    IN IF o.id \in {"None", "empty"}
       THEN [call |-> call, files |-> files]
       ELSE IF NoCaptions(o.captions)
       THEN [call |-> c2, files |-> files]
       ELSE IF o.transcript \in {"None", "empty"}
       THEN [call |-> c3, files |-> files]
       ELSE IF title = NoneTitle
       THEN [call |-> c3, files |-> files]
       ELSE [call  |-> [c4 EXCEPT !.value = Saved(o.save)],
             files |-> save_transcript(files, SafeTitle(title), o.save)]

TranscribeInit ==
    /\ TranscriberIdle
    /\ SelectionIdle
    /\ CmDownloaderIdle
    /\ DownloaderIdle
    /\ ResolverIdle
    /\ ListerIdle
    /\ MainIdle
    /\ ConfigIdle

\* a caller calls get_transcription(video_url, video_title)
call_get_transcription ==
    /\ t_count < MaxTranscriptions
    /\ t_count' = t_count + 1
    /\ \E title \in TitleArguments, o \in StepOutcomes :
         LET r == get_transcription(t_files, title, o)
         IN /\ t_last' = r.call
            /\ t_files' = r.files
    /\ UNCHANGED <<rvars, lvars, mvars, cvars, dvars, svars, xvars>>

TranscribeNext ==
    \/ call_get_transcription

TranscribeSpec == TranscribeInit /\ [][TranscribeNext]_vars

----------------------------------------------------------------------------
(* main of src/youtube_channel_manager/main.py: one channel, the display   *)
(* of its records, the selection prompt and the downloads                  *)

MaxPrompts == 3

\* what input() gives at a selection prompt, character by character
ChoiceTexts ==
    { <<"q">>, <<"Q">>, <<"b">>, <<"a", "l", "l">>, <<" ", "A", "l", "l">>,
      <<"0">>, <<"1">>, <<"2">>, <<"3">>, <<" ", "2", " ">>, <<"-", "1">>,
      <<"1", "0">>, <<"1", ".", "5">>, <<"x">>, <<>> }

\* str.lower() on the characters of ChoiceTexts
LowerChar(c) ==
    CASE c = "Q" -> "q" [] c = "A" -> "a" [] c = "L" -> "l" [] c = "B" -> "b"
      [] OTHER -> c
Lower(s) == [i \in 1..Len(s) |-> LowerChar(s[i])]

\* str.strip()
RECURSIVE Lstrip(_)
Lstrip(s) == IF s # <<>> /\ s[1] = " " THEN Lstrip(Tail(s)) ELSE s
Strip(s) == Lstrip(Rstrip(s))

\* the decimal digits and their values
DigitChars == {"0", "1", "2", "3", "4", "5", "6", "7", "8", "9"}
DigitValue(c) ==
    CASE c = "0" -> 0 [] c = "1" -> 1 [] c = "2" -> 2 [] c = "3" -> 3
      [] c = "4" -> 4 [] c = "5" -> 5 [] c = "6" -> 6 [] c = "7" -> 7
      [] c = "8" -> 8 [] c = "9" -> 9

\* int(s) on a sign and digits; ValueError on anything else
Unsigned(s) == IF s # <<>> /\ s[1] \in {"-", "+"} THEN Tail(s) ELSE s
IntRaises(s) ==
    \/ Unsigned(s) = <<>>
    \/ \E i \in 1..Len(Unsigned(s)) : Unsigned(s)[i] \notin DigitChars
RECURSIVE Magnitude(_)
Magnitude(d) ==
    IF d = <<>> THEN 0
    ELSE 10 * Magnitude(SubSeq(d, 1, Len(d) - 1)) + DigitValue(d[Len(d)])
ParseInt(s) == IF s[1] = "-" THEN 0 - Magnitude(Unsigned(s)) ELSE Magnitude(Unsigned(s))

\* (mutant) the index is taken as typed, without the shift to 0-based
Index_unshifted(choice) == ParseInt(choice)

\* main.py line 64 (src/main.py line 91): idx = int(choice) - 1
Index(choice) == ParseInt(choice) - 1

\* main.py line 65 (src/main.py line 92): 0 <= idx < len(videos)
ValidIndex(idx, vids) == 0 <= idx /\ idx < Len(vids)

\* the videos list is 0-based in the code and 1-based here
At(vids, idx) == vids[idx + 1]

\* youtube_channel_manager/src/youtube_api.py lines 76-112:
\* get_channel_videos returns None or a list
CmListingOutcomes ==
    { ReturnsNone } \cup { ReturnList(Slice(0, n)) : n \in 0..MaxListed }

\* main.py line 46-47: the records of youtube_channel_manager carry both keys
CmDisplayRaises == ~(DisplayKeys \subseteq OldVideoKeys)

\* main.py line 25: what input() gives at the channel-URL prompt
CmUrlPromptInputs == { "url", "KeyboardInterrupt", "EOFError" }

\* main has no try statement: an exception ends it, a return ends it
CmEnds(err, out) ==
    /\ mpc' = "exit"
    /\ m_error' = err
    /\ printed' = printed \o out

CmMainInit ==
    /\ mpc = "start" /\ m_rounds = 0 /\ m_channel_id = "" /\ m_videos = <<>>
    /\ m_shown = 0 /\ m_error = "none" /\ printed = <<>>
    /\ ResolverIdle
    /\ ListerIdle
    /\ ConfigIdle
    /\ OthersIdle

\* main.py lines 19-29: the welcome message, the two components, the
\* channel-URL prompt
cm_main ==
    /\ mpc = "start"
    /\ m_rounds' = 1
    /\ \E in \in CmUrlPromptInputs :
         IF in = "url"
         THEN /\ mpc' = "resolve"
              /\ printed' = printed \o <<"welcome", "Fetching channel information">>
              /\ UNCHANGED m_error
         ELSE CmEnds(in, <<"welcome">>)
    /\ UNCHANGED <<m_channel_id, m_videos, m_shown, rvars, lvars, cvars, ovars>>

\* main.py lines 29-36: get_channel_id, and return without an id
cm_main_resolve ==
    /\ mpc = "resolve"
    /\ \E r \in ResolveOutcomes :
         IF r = ReturnNone
         THEN /\ CmEnds("none", <<"Could not find channel ID">>)
              /\ m_channel_id' = "None"
         ELSE /\ mpc' = "list"
              /\ m_channel_id' = r.value
              /\ printed' = Append(printed, "Fetching videos")
              /\ UNCHANGED m_error
    /\ UNCHANGED <<m_rounds, m_videos, m_shown, rvars, lvars, cvars, ovars>>

\* main.py lines 37-44: get_channel_videos, and return without videos
cm_main_list ==
    /\ mpc = "list"
    /\ \E r \in CmListingOutcomes :
         IF r = ReturnsNone \/ r.value = <<>>
         THEN /\ CmEnds("none", <<"No videos found">>)
              /\ UNCHANGED <<m_videos, m_shown>>
         ELSE /\ m_videos' = r.value
              /\ m_shown' = 0
              /\ mpc' = "display"
              /\ printed' = Append(printed, "Found videos")
              /\ UNCHANGED m_error
    /\ UNCHANGED <<m_rounds, m_channel_id, rvars, lvars, cvars, ovars>>

\* main.py lines 45-47: one pass of the display loop; after the last record
\* the selection prompt follows
cm_main_display ==
    /\ mpc = "display"
    /\ IF m_shown = Len(m_videos)
       THEN /\ mpc' = "select_prompt"
            /\ UNCHANGED <<m_shown, m_error, printed>>
       ELSE IF CmDisplayRaises
       THEN CmEnds("KeyError", <<"title">>) /\ UNCHANGED m_shown
       ELSE /\ m_shown' = m_shown + 1
            /\ printed' = printed \o <<"title", "URL">>
            /\ UNCHANGED <<mpc, m_error>>
    /\ UNCHANGED <<m_rounds, m_channel_id, m_videos, rvars, lvars, cvars, ovars>>

\* the downloads of download_multiple_videos(video_urls): one per video, in
\* order, each with its own result
BatchDownloads(vids, oks) == [i \in 1..Len(vids) |-> [video |-> vids[i], ok |-> oks[i]]]

\* main.py lines 50-81: the selection prompt is shown and answered; after a
\* download the summary is printed and main ends
cm_main_select ==
    /\ mpc = "select_prompt"
    /\ s_prompts < MaxPrompts
    /\ s_prompts' = s_prompts + 1
    /\ \E text \in ChoiceTexts :
         LET choice == Lower(Strip(text))
         IN CASE choice = <<"q">> ->
                   /\ s_last' = [text |-> text, before |-> Len(s_downloads), mode |-> "q"]
                   /\ CmEnds("none", <<"Enter video number">>)
                   /\ UNCHANGED s_downloads
              [] choice = <<"a", "l", "l">> ->
                   \E oks \in [1..Len(m_videos) -> BOOLEAN] :
                      /\ s_last' = [text |-> text, before |-> Len(s_downloads), mode |-> "all"]
                      /\ s_downloads' = s_downloads \o BatchDownloads(m_videos, oks)
                      /\ CmEnds("none", <<"Enter video number", "Preparing to download all">>
                                        \o IF \E i \in DOMAIN oks : oks[i]
                                           THEN <<"Download Summary">> ELSE <<>>)
              [] OTHER ->
                   IF IntRaises(choice)
                   THEN /\ s_last' = [text |-> text, before |-> Len(s_downloads), mode |-> "invalid_input"]
                        /\ printed' = printed \o <<"Enter video number", "Invalid input">>
                        /\ UNCHANGED <<s_downloads, mpc, m_error>>
                   ELSE IF ValidIndex(Index(choice), m_videos)
                   THEN \E ok \in BOOLEAN :
                          /\ s_last' = [text |-> text, before |-> Len(s_downloads), mode |-> "single"]
                          /\ s_downloads' = Append(s_downloads,
                                 [video |-> At(m_videos, Index(choice)), ok |-> ok])
                          /\ CmEnds("none", <<"Enter video number", "Preparing to download",
                                              "Download Summary">>)
                   ELSE /\ s_last' = [text |-> text, before |-> Len(s_downloads), mode |-> "invalid_selection"]
                        /\ printed' = printed \o <<"Enter video number", "Invalid selection">>
                        /\ UNCHANGED <<s_downloads, mpc, m_error>>
    /\ UNCHANGED <<m_rounds, m_channel_id, m_videos, m_shown, s_transcribed,
                   rvars, lvars, cvars, dvars, tvars, xvars>>

CmMainNext ==
    \/ cm_main
    \/ cm_main_resolve
    \/ cm_main_list
    \/ cm_main_display
    \/ cm_main_select

CmMainSpec == CmMainInit /\ [][CmMainNext]_vars

----------------------------------------------------------------------------
(* The selection loop of main of src/main.py (lines 64-106), entered with  *)
(* records whose title and URL the display loop has printed                *)

\* transcription_handler.py lines 146-154: get_multiple_transcriptions asks
\* a transcription for every video of the list it is given, in order
get_multiple_transcriptions(vids) == vids

\* main.py lines 57-63: the display loop has printed every record
SelectInit ==
    /\ mpc = "select_prompt" /\ m_rounds = 1 /\ m_channel_id = UC1
    /\ m_videos \in { Slice(0, n) : n \in 1..MaxListed }
    /\ m_shown = Len(m_videos) /\ m_error = "none"
    /\ printed = <<"welcome", "Fetching channel information", "Fetching videos",
                   "Found videos">>
    /\ ResolverIdle
    /\ ListerIdle
    /\ ConfigIdle
    /\ OthersIdle

\* main.py lines 64-106: the selection prompt is shown and answered
main_select ==
    /\ mpc = "select_prompt"
    /\ s_prompts < MaxPrompts
    /\ s_prompts' = s_prompts + 1
    /\ \E text \in ChoiceTexts :
         LET choice == Lower(Strip(text))
             asked(mode) == [text |-> text, before |-> Len(s_downloads), mode |-> mode]
         IN CASE choice = <<"q">> ->
                   /\ s_last' = asked("q")
                   /\ Ends("none", <<"Options", "Thank you">>)
                   /\ UNCHANGED <<s_downloads, s_transcribed>>
              [] choice = <<"b">> ->
                   /\ s_last' = asked("b")
                   /\ mpc' = "url_prompt"
                   /\ printed' = Append(printed, "Options")
                   /\ UNCHANGED <<s_downloads, s_transcribed, m_error>>
              [] choice = <<"a", "l", "l">> ->
                   \E oks \in [1..Len(m_videos) -> BOOLEAN] :
                      /\ s_last' = asked("all")
                      /\ s_downloads' = s_downloads \o BatchDownloads(m_videos, oks)
                      /\ s_transcribed' =
                            s_transcribed \o get_multiple_transcriptions(m_videos)
                      /\ mpc' = "url_prompt"
                      /\ printed' = printed \o <<"Options", "Preparing to download all",
                                                 "Getting transcriptions">>
                      /\ UNCHANGED m_error
              [] OTHER ->
                   IF IntRaises(choice)
                   THEN /\ s_last' = asked("invalid_input")
                        /\ printed' = printed \o <<"Options", "Invalid input">>
                        /\ UNCHANGED <<s_downloads, s_transcribed, mpc, m_error>>
                   ELSE IF ValidIndex(Index(choice), m_videos)
                   THEN \E ok \in BOOLEAN :
                          /\ s_last' = asked("single")
                          /\ s_downloads' = Append(s_downloads,
                                 [video |-> At(m_videos, Index(choice)), ok |-> ok])
                          /\ s_transcribed' =
                                IF ok THEN Append(s_transcribed, At(m_videos, Index(choice)))
                                      ELSE s_transcribed
                          /\ mpc' = "url_prompt"
                          /\ printed' = printed \o <<"Options", "Preparing to download">>
                                \o IF ok THEN <<"Video downloaded", "Getting video transcription">>
                                         ELSE <<"Failed to download">>
                          /\ UNCHANGED m_error
                   ELSE /\ s_last' = asked("invalid_selection")
                        /\ printed' = printed \o <<"Options", "Invalid selection">>
                        /\ UNCHANGED <<s_downloads, s_transcribed, mpc, m_error>>
    /\ UNCHANGED <<m_rounds, m_channel_id, m_videos, m_shown,
                   rvars, lvars, cvars, dvars, tvars, xvars>>

SelectNext ==
    \/ main_select

SelectSpec == SelectInit /\ [][SelectNext]_vars

----------------------------------------------------------------------------
(* get_channel_videos followed for as long as it runs: the same loop as in *)
(* ListSpec, without the cap on the number of requests and without the     *)
(* records of past requests, under the fairness of a thread that always    *)
(* takes its next step                                                     *)

\* lines 151-152: the loop condition holds and request.execute() returns
execute_page ==
    /\ lpc = "while"
    /\ LoopContinues(request, videos, max_results)
    /\ \E k \in PageSizes(request.maxResults, upstream - cursor), t \in TokenValues :
         /\ response' = [items |-> Slice(cursor, k), token |-> t]
         /\ pending' = Slice(cursor, k)
         /\ cursor' = cursor + k
         /\ honoured' = (honoured /\ KeepsContract(request.maxResults, k, t))
    /\ lpc' = "for"
    /\ UNCHANGED <<max_results, upstream, request, videos, executed, fetched,
                   tokens, lresult, flaw, rvars, mvars, cvars, ovars>>

\* lines 152, 181-182: request.execute() raises; the except clause raises
\* Exception("Failed to retrieve videos: ...")
execute_page_raises ==
    /\ lpc = "while"
    /\ LoopContinues(request, videos, max_results)
    /\ lresult' = RaiseException("HttpError")
    /\ lpc' = "done"
    /\ UNCHANGED <<max_results, upstream, cursor, request, response, pending,
                   videos, executed, fetched, honoured, tokens, flaw,
                   rvars, mvars, cvars, ovars>>

ListLiveNext ==
    \/ get_channel_videos
    \/ execute_page
    \/ execute_page_raises
    \/ for_append
    \/ for_raises
    \/ next_page
    \/ return_videos

ListLiveSpec == ListInit /\ [][ListLiveNext]_vars /\ WF_vars(ListLiveNext)

----------------------------------------------------------------------------
(* VideoDownloader of youtube_channel_manager/src/video_downloader.py:     *)
(* download_video, which retries, on one object used for several calls     *)

MaxDownloadCalls == 3

\* video_downloader.py line 51: max_attempts = 3
max_attempts == 3

\* lines 57-69: what one pass of the loop does: extract_info and download
\* complete; extract_info returns nothing (line 61 raises); extract_info
\* raises; download raises
AttemptOutcomes == {"completes", "no_info", "extract_raises", "download_raises"}

\* (mutant) every retry uses 'worst'
RetryFormat_alwaysWorst(attempt) == "worst"

\* line 78: the format set before a retry, given current_attempt
RetryFormat(attempt) == IF attempt = 1 THEN "best[height<=720]" ELSE "worst"

CmDownloadInit ==
    /\ CmDownloaderIdle
    /\ DownloaderIdle
    /\ TranscriberIdle
    /\ SelectionIdle
    /\ ResolverIdle
    /\ ListerIdle
    /\ MainIdle
    /\ ConfigIdle

\* lines 51-52: download_video is called, by main (main.py line 67) or by
\* the loop of download_multiple_videos (line 95)
cm_download_video ==
    /\ xpc = "idle"
    /\ x_calls < MaxDownloadCalls
    /\ x_calls' = x_calls + 1
    /\ x_attempt' = 0
    /\ x_tried' = <<>>
    /\ x_last' = [kind |-> "pending", value |-> FALSE]
    /\ xpc' = "while"
    /\ UNCHANGED <<x_format, rvars, lvars, mvars, cvars, dvars, tvars, svars>>

\* lines 54-81: one pass of the while loop
cm_attempt ==
    /\ xpc = "while"
    /\ x_attempt < max_attempts
    /\ \E o \in AttemptOutcomes :
         /\ x_tried' = Append(x_tried, [format |-> x_format, outcome |-> o])
         /\ IF o = "completes"
            THEN /\ x_last' = [kind |-> "return", value |-> TRUE]
                 /\ xpc' = "idle"
                 /\ UNCHANGED <<x_attempt, x_format>>
            ELSE /\ x_attempt' = x_attempt + 1
                 /\ IF x_attempt + 1 < max_attempts
                    THEN /\ x_format' = RetryFormat(x_attempt + 1)
                         /\ UNCHANGED <<xpc, x_last>>
                    ELSE /\ x_last' = [kind |-> "return", value |-> FALSE]
                         /\ xpc' = "idle"
                         /\ UNCHANGED x_format
    /\ UNCHANGED <<x_calls, rvars, lvars, mvars, cvars, dvars, tvars, svars>>

CmDownloadNext ==
    \/ cm_download_video
    \/ cm_attempt

CmDownloadSpec == CmDownloadInit /\ [][CmDownloadNext]_vars

----------------------------------------------------------------------------
(* Properties of get_channel_id (checked under ResolveSpec; C2 under      *)
(* CmResolveSpec, the copy of youtube_channel_manager)                     *)

\* the path segment that follows the first "/channel/", up to the next "/"
\* or the end of the string, found by scanning
SegmentAfterFirstChannel(u) ==
    LET i    == Find(u, CHANNEL)
        rest == SubSeq(u, i + Len(CHANNEL), Len(u))
        j    == Find(rest, SLASH)
    IN IF j = 0 THEN rest ELSE SubSeq(rest, 1, j - 1)

\* the handle/custom/user form: "/@", "/c/" or "/user/" and no "/channel/"
IsHandleOnly(u) == IsHandleForm(u) /\ ~HasChannelSegment(u)

\* the fallback chain in its fixed order
Chain(name) ==
    << HandleSearchRequest(name), ForUsernameRequest(name), GeneralSearchRequest(name) >>

\* C1: for every URL whose normalised form contains "/channel/",
\* get_channel_id returns the path segment that follows the first
\* "/channel/" and executes no lookup.
C1_ChannelSegmentReturned ==
    (rpc = "done" /\ HasChannelSegment(channel_url)) =>
        /\ rresult = ReturnId(SegmentAfterFirstChannel(channel_url))
        /\ lookups = <<>>

\* C2: for a handle/custom/user URL the lookups run in the order handle
\* search ("@name"), username lookup, general search (bare name), each at
\* most once; the call stops at the first lookup whose result is non-empty
\* and returns that result's first item; no lookup follows a success.
C2_StopsAtFirstNonEmptyResult ==
    (rpc # "idle" /\ IsHandleOnly(channel_url)) =>
        /\ Len(lookups) <= 3
        /\ lookups = SubSeq(Chain(username), 1, Len(lookups))
        /\ \A i \in 1..Len(replies) :
             HasItems(replies[i]) =>
                /\ i = Len(replies)
                /\ rpc = "done"
                /\ rresult = ReturnId(FirstChannelId(replies[i]))

\* C3: when all three lookups of a handle/custom/user URL return empty
\* result sets, get_channel_id raises a not-found error to its caller.
C3_NotFoundIsRaised ==
    ( /\ rpc = "done"
      /\ IsHandleOnly(channel_url)
      /\ Len(replies) = 3
      /\ \A i \in 1..3 : replies[i] = [kind |-> "response", items |-> <<>>] )
    => rresult.kind = "raise"

\* the position from which strategy number i is tried
StrategyPc(i) ==
    CASE i = 1 -> "handle_search" [] i = 2 -> "for_username" [] OTHER -> "general_search"

\* C4: a lookup that fails (execute() raises, the result is empty, or the
\* first item lacks the channel-id field) never ends the resolution: the
\* call moves on to the next strategy, None is returned only after the third
\* strategy has failed, and a later success is returned whatever the
\* earlier failures were.
C4_FailureFallsThrough ==
    /\ \A i \in 1..Len(replies) :
         (~Yields(replies[i]) /\ i < 3) =>
             \/ Len(lookups) > i
             \/ Len(lookups) = i /\ rpc = StrategyPc(i + 1) /\ rresult = Pending
    /\ (rpc = "done" /\ lookups # <<>>) =>
         IF Yields(replies[Len(replies)])
         THEN rresult = ReturnId(FirstChannelId(replies[Len(replies)]))
         ELSE Len(lookups) = 3 /\ rresult = ReturnNone

\* C4 witness: the first lookup raised, the second answered an item without
\* the field, the third succeeded and its id was returned.
C4_Witness ==
    /\ rpc = "done"
    /\ Len(replies) = 3
    /\ replies[1].kind = "error"
    /\ replies[2] = [kind |-> "response", items |-> <<NoIdItem>>]
    /\ Yields(replies[3])
    /\ rresult = ReturnId(FirstChannelId(replies[3]))

----------------------------------------------------------------------------
(* Properties of get_channel_videos (checked under ListSpec) *)

Max(a, b) == IF a >= b THEN a ELSE b

Returned == lpc = "done" /\ lresult.kind = "return"

\* the call ended because building video_info from the next item raised
MappingFailed ==
    /\ lpc = "done"
    /\ lresult.kind = "raise"
    /\ flaw.at = Len(videos) + 1
    /\ flaw.at <= Len(fetched)

\* C5: with max_results <= 0 no request is ever executed and the call
\* returns the empty list.
C5_NoRequestWhenNotPositive ==
    max_results <= 0 =>
        /\ executed = <<>>
        /\ videos = <<>>
        /\ lpc = "done" => lresult = ReturnList(<<>>)

\* C5 witness: a call with a negative max_results has returned.
C5_Witness == max_results < 0 /\ Returned /\ request.built

\* C6: every executed request asks for min(50, max_results - records
\* accumulated so far), a number from 1 to 50; with max_results = 75 and an
\* endpoint that has at least 75 videos and keeps to its contract, the call
\* executes two requests, for 50 and then 25, and returns 75 records.
C6_PageSizeIsRemainderCappedAt50 ==
    /\ \A i \in 1..Len(executed) :
         /\ executed[i].maxResults = Min(50, max_results - executed[i].have)
         /\ executed[i].maxResults \in 1..50
    /\ (Returned /\ honoured /\ max_results = 75 /\ upstream >= 75) =>
         /\ Len(executed) = 2
         /\ executed[1].maxResults = 50
         /\ executed[2].maxResults = 25
         /\ Len(lresult.value) = 75

\* C6 witness: the 75-record scenario has run to its end.
C6_Witness ==
    /\ Returned /\ honoured /\ max_results = 75 /\ upstream >= 75
    /\ Len(executed) = 2

\* C7: after a response without a nextPageToken key no further request is
\* executed, also when fewer than max_results records were collected, and
\* the call returns the records accumulated (unless an item of that page
\* could not be mapped, which ends the call with the mapping error).
C7_StopsWhenTokenAbsent ==
    \A i \in 1..Len(tokens) :
        tokens[i] = "absent" =>
            /\ Len(executed) = i
            /\ lpc = "done" => (lresult = ReturnList(videos) \/ MappingFailed)

\* C7 witness: the call returned fewer than max_results records after a
\* second page that carried no token.
C7_Witness ==
    /\ Returned
    /\ tokens = <<"token", "absent">>
    /\ Len(lresult.value) < max_results
    /\ lresult.value # <<>>

\* C8: a nextPageToken of None ends the listing like an absent one: no
\* request follows the response that carried it, none is executed with
\* pageToken = None, and the accumulated records are returned.
C8_NoneTokenEndsListing ==
    /\ \A i \in 1..Len(tokens) :
         tokens[i] = "None" =>
             /\ Len(executed) = i
             /\ lpc = "done" => (lresult = ReturnList(videos) \/ MappingFailed)
    /\ \A i \in 1..Len(executed) : executed[i].pageToken # "None"

\* C9: in every state of the loop and at return the number of records
\* accumulated is at most max_results, also when a page holds more items
\* than were asked for; the result has exactly max_results records when
\* the pages received held that many, and when the endpoint has that many
\* and keeps to its contract.
C9_NeverMoreThanMaxResults ==
    /\ Len(videos) <= Max(max_results, 0)
    /\ (Returned /\ max_results >= 0) =>
         /\ Len(lresult.value) <= max_results
         /\ Len(fetched) >= max_results => Len(lresult.value) = max_results
         /\ (honoured /\ upstream >= max_results) => Len(lresult.value) = max_results

\* C9 witness: a page held more items than were still wanted; the loop is
\* at an item it will not take, with exactly max_results records.
C9_Witness ==
    /\ lpc = "for"
    /\ pending # <<>>
    /\ max_results > 0
    /\ Len(videos) = max_results
    /\ Len(response.items) > Last(executed).maxResults

\* C10 as stated: the list returned is the concatenation, in request
\* order, of the items of the pages fetched.
C10_ResultIsAllFetchedItems ==
    Returned => lresult.value = fetched

\* C10 amended: the list returned is the concatenation, in request order,
\* of the items of the pages fetched, cut after max_results records: the
\* items a page holds beyond max_results are dropped; in every state videos
\* is a prefix of that concatenation, which is a prefix of the upstream
\* sequence.
C10_ResultIsPrefixOfFetchedItems ==
    /\ Len(videos) <= Len(fetched)
    /\ videos = SubSeq(fetched, 1, Len(videos))
    /\ fetched = Slice(0, Len(fetched))
    /\ Returned =>
         lresult.value = SubSeq(fetched, 1, Min(Len(fetched), Max(max_results, 0)))

\* C10 witness: two pages were fetched, the second held more than was
\* still wanted, and the result holds the first max_results items in order.
C10_Witness ==
    /\ Returned
    /\ Len(executed) = 2
    /\ Len(fetched) > max_results
    /\ Len(lresult.value) >= 2
    /\ lresult.value = Slice(0, max_results)

\* C11: when request.execute() fails with HttpError the caller of
\* get_channel_videos receives that error, an HttpError: the failed request
\* is the last one executed (no retry) and no list is returned.
C11_HttpErrorPropagatedUnmodified ==
    (tokens # <<>> /\ Last(tokens) = "error") =>
        /\ lpc = "done"
        /\ lresult.kind = "raise"
        /\ lresult.error = "HttpError"
        /\ Len(executed) = Len(tokens)

\* C12: every video-listing operation ends by raising an error or by
\* returning a list, never None: a channel without videos gives the empty
\* list, and a failed request gives an error, not None.
C12_ListOrErrorNeverNone ==
    lpc = "done" =>
        /\ lresult.kind \in { "return", "raise" }
        /\ (tokens # <<>> /\ Last(tokens) = "error") => lresult.kind = "raise"
        /\ (lresult.kind = "return" /\ fetched = <<>>) => lresult.value = <<>>

\* the fields of a raw item the mapping may find missing (description,
\* publishedAt) and those it needs (the video id, the title)
OptionalFields == { "snippet.description", "snippet.publishedAt" }
RequiredFields == { "id.videoId", "snippet.title" }

\* C13: a raw item that lacks description or publishedAt is still mapped
\* to a record: the call does not fail on it, and unless a request failed
\* it returns its list.
C13_MissingOptionalFieldDefaults ==
    flaw.field \in OptionalFields =>
        /\ ~MappingFailed
        /\ (lpc = "done" /\ ~(tokens # <<>> /\ Last(tokens) = "error")) => Returned

\* C14 as stated: when a raw item received lacks the video id or the
\* title, the call fails.
C14_MissingRequiredFieldFailsCall ==
    (lpc = "done" /\ flaw.field \in RequiredFields /\ flaw.at <= Len(fetched)) =>
        lresult.kind = "raise"

\* C14 amended: when a raw item lacks the video id or the title and is one
\* of the first max_results items received, the call fails with the error
\* raised to the caller; the item is neither skipped nor mapped, so videos
\* never holds it and no list is returned. An incomplete item that a page
\* holds beyond max_results is dropped with the rest of that page.
C14_MissingRequiredFieldFailsCallWithinLimit ==
    flaw.field \in RequiredFields =>
        /\ \A i \in 1..Len(videos) : videos[i] # flaw.at
        /\ (lpc = "done" /\ flaw.at <= Len(fetched) /\ flaw.at <= max_results) =>
              /\ lresult.kind = "raise"
              /\ lresult.error = "Exception"
        /\ Returned => lresult.value = SubSeq(fetched, 1, Len(lresult.value))

\* C14 witness: the second item of the channel lacks a required field; the
\* first was mapped, and the call failed at the second.
C14_Witness ==
    /\ MappingFailed
    /\ flaw.field \in RequiredFields
    /\ videos = <<1>>
    /\ flaw.at = 2

\* C15: every record main lists carries its URL, so after a listing that
\* returned at least one record main prints every record and reaches the
\* selection prompt: it does not end in the display loop.
C15_ListedRecordsCarryUrl ==
    m_videos # <<>> =>
        /\ "url" \in ListedKeys
        /\ mpc = "exit" => m_error # "KeyError"
        /\ mpc = "select_prompt" => m_shown = Len(m_videos)

\* what is left of s after its first n characters
Drop(s, n) == SubSeq(s, n + 1, Len(s))

\* the scheme an input carries, and the input without it
SchemeOf(u) == IF StartsWith(u, HTTPS) THEN HTTPS
               ELSE IF StartsWith(u, HTTP) THEN HTTP ELSE <<>>
AfterScheme(u) == Drop(u, Len(SchemeOf(u)))

\* the URL C16 describes: the scheme of the input ("https://" when it has
\* none), then "www." once, then the rest of the input as it was
Canonical(u) ==
    LET scheme == IF SchemeOf(u) = <<>> THEN HTTPS ELSE SchemeOf(u)
        rest == AfterScheme(u)
    IN IF StartsWith(rest, WWW) THEN scheme \o rest ELSE scheme \o WWW \o rest

\* C16: for every input the normalised URL is the input's scheme or
\* "https://", then "www." (inserted only when the host lacked it, never
\* doubled), then the rest of the input unaltered.
C16_NormalizedPrefixOnly ==
    rpc # "idle" => channel_url = Canonical(url_in)

Getters(i) == [n \in PrivateAttrs |-> objs[i][n]]

\* the getter values of an instance initialized from environment e
FromEnvironment(e) ==
    [n \in PrivateAttrs |->
        CASE n = BASE_DIR_ATTR -> e.BASE_DIR
          [] n = API_KEY_ATTR -> e.YOUTUBE_API_KEY
          [] n = DOWNLOADS_ATTR ->
               IF e.DOWNLOAD_DIR # <<>> THEN e.DOWNLOAD_DIR
               ELSE e.BASE_DIR \o << "downloads" >>
          [] n = TRANSCRIPTS_ATTR -> e.BASE_DIR \o << "transcripts" >>
          [] n = CREDENTIALS_ATTR -> e.BASE_DIR \o << "credentials.json" >>]

\* the last operation was a Config() call
Called == c_last.op = "Config"

\* C18 as stated: between two reset() calls every Config() call returns
\* the same instance and the initialization runs at most once; after
\* reset() the next Config() returns a different instance.
C18_InitializationRunsAtMostOnce ==
    /\ Cardinality(epoch_returned) <= 1
    /\ epoch_inits <= 1
    /\ epoch_returned \cap prev_returned = {}

\* C18 amended: between two reset() calls every Config() call that returns
\* returns the same instance and the initialization runs to its end at
\* most once: a Config() call made after that does not run it and leaves
\* the getter values as they are, whatever the environment has become (a
\* call that fails leaves the configuration uninitialized, and the next
\* call runs the initialization again). After reset() the next Config()
\* that returns gives an instance never returned before, initialized from
\* the environment of that call.
C18_InitializationCompletesAtMostOnce ==
    /\ Cardinality(epoch_returned) <= 1
    /\ epoch_done <= 1
    /\ epoch_returned \cap prev_returned = {}
    /\ cls_initialized =>
          /\ epoch_returned = { cls_instance }
          /\ \A n \in PrivateAttrs : objs[cls_instance][n] = c_snap[cls_instance][n]
    /\ (Called /\ c_last.was_initialized) =>
          /\ c_last.outcome = "ok"
          /\ ~c_last.ran_init
          /\ c_last.created = {}
    /\ (Called /\ c_last.outcome = "ok" /\ c_last.ran_init) =>
          /\ c_last.inst \notin prev_returned
          /\ Getters(c_last.inst) = FromEnvironment(env)

\* C18 witness: after a reset() a second instance was returned; then
\* BASE_DIR changed in the environment, and a further Config() call
\* returned the second instance with the base directory it had.
C18_Witness ==
    /\ Called /\ c_last.outcome = "ok" /\ ~c_last.ran_init
    /\ prev_returned = { 1 }
    /\ c_last.inst = 2
    /\ env.BASE_DIR # objs[2][BASE_DIR_ATTR]

\* the three failures of a Config() call that C19 names
ValidationFailures ==
    { "ValueError: BASE_DIR", "PermissionError: base directory",
      "ValueError: YOUTUBE_API_KEY" }

\* the directories that existed before the last operation
DirsBefore == dirs \ c_last.created

\* C19: a Config() call that runs the initialization fails with ValueError
\* when BASE_DIR is unset, else with PermissionError when neither the base
\* directory nor its parent exists, else with ValueError when
\* YOUTUBE_API_KEY is unset; a call that failed so created no directory and
\* left the configuration uninitialized, and a Config() call under a valid
\* environment initializes, also after calls that failed.
C19_ValidationOrderAndNoSideEffect ==
    (Called /\ c_last.ran_init) =>
        LET base_unset == env.BASE_DIR = <<>>
            no_path == /\ env.BASE_DIR \notin DirsBefore
                       /\ Parent(env.BASE_DIR) # <<>>
                       /\ Parent(env.BASE_DIR) \notin DirsBefore
            key_unset == env.YOUTUBE_API_KEY = <<>>
        IN /\ base_unset => c_last.outcome = "ValueError: BASE_DIR"
           /\ (~base_unset /\ no_path) =>
                 c_last.outcome = "PermissionError: base directory"
           /\ (~base_unset /\ ~no_path /\ key_unset) =>
                 c_last.outcome = "ValueError: YOUTUBE_API_KEY"
           /\ c_last.outcome \in ValidationFailures =>
                 /\ base_unset \/ no_path \/ key_unset
                 /\ c_last.created = {}
                 /\ ~cls_initialized
                 /\ c_last.inst \notin c_done
           /\ (~base_unset /\ ~no_path /\ ~key_unset /\ c_last.mkdir_fails = 0) =>
                 /\ c_last.outcome = "ok"
                 /\ cls_initialized
                 /\ Getters(c_last.inst) = FromEnvironment(env)

\* C19 witness: a Config() call failed on the API key, the environment was
\* put right, and the next Config() call initialized the same instance,
\* creating its directories.
C19_Witness ==
    /\ Called /\ c_last.outcome = "ok" /\ c_last.ran_init
    /\ epoch_inits = 2
    /\ c_setenvs = 1
    /\ c_last.inst = 1
    /\ env.BASE_DIR = DIR_B
    /\ DIR_B \in c_last.created

\* C20: the getter values of an instance whose initialization ended never
\* change afterwards, whatever Config() and reset() calls follow: an
\* assignment to one of its attributes whose name begins with "_" fails
\* with AttributeError.
C20_PrivateAttributesFrozen ==
    /\ \A i \in c_done : \A n \in PrivateAttrs : objs[i][n] = c_snap[i][n]
    /\ (c_last.op = "setattr" /\ StartsWith(c_last.name, << "_" >>)
          /\ c_last.inst \in c_done) => c_last.outcome = "AttributeError"

----------------------------------------------------------------------------
(* Properties of VideoDownloader (src/src/video_downloader.py), checked    *)
(* under DownloadSpec                                                      *)

\* C21: download_video never raises; it returns True exactly when
\* extract_info returned a non-empty result and the download call completed
\* without an exception; when extract_info returns nothing or raises, it
\* returns False and download is never invoked
C21_DownloadVideoOutcome ==
    \A i \in 1..Len(d_calls) :
        LET c == d_calls[i]
        IN /\ c.kind = "return"
           /\ c.value \in BOOLEAN
           /\ c.value = TRUE <=> (c.info = "info" /\ c.download = "completes")
           /\ c.info \in {"None", "empty", "raises"}
                => (c.value = FALSE /\ c.download = "not_called")

\* download_video has returned True once and, on missing information, False
\* without calling download
C21_Witness ==
    /\ \E i \in 1..Len(d_calls) : d_calls[i].value = TRUE
    /\ \E i \in 1..Len(d_calls) :
          d_calls[i].info = "None" /\ d_calls[i].value = FALSE
    /\ \E i \in 1..Len(d_calls) :
          d_calls[i].download = "raises" /\ d_calls[i].value = FALSE

\* the download_video calls download_multiple_videos has made, in order
BatchCalls == SelectSeq(d_calls, LAMBDA c : c.by = "batch")

\* C22: download_multiple_videos calls download_video once for every URL of
\* its input, in input order, whatever the earlier outcomes were, and
\* returns the list of the outcomes, position by position
C22_OneAttemptPerUrlInOrder ==
    /\ Len(BatchCalls) <= Len(d_urls)
    /\ \A i \in 1..Len(BatchCalls) : BatchCalls[i].url = d_urls[i]
    /\ dpc = "for" => Len(d_results) = Len(BatchCalls)
    /\ dpc = "done" =>
          /\ d_result.kind = "return"
          /\ Len(BatchCalls) = Len(d_urls)
          /\ Len(d_result.value) = Len(d_urls)
          /\ \A i \in 1..Len(d_urls) : d_result.value[i] = BatchCalls[i].value

\* a batch of the longest length has returned, its first download having
\* failed and a later one succeeded
C22_Witness ==
    /\ dpc = "done"
    /\ Len(d_urls) = MaxUrls
    /\ d_result.value[1] = FALSE
    /\ d_result.value[Len(d_urls)] = TRUE

----------------------------------------------------------------------------
(* Properties of TranscriptionHandler.get_transcription, checked under     *)
(* TranscribeSpec                                                          *)

\* the order of the steps of get_transcription
StepOrder == <<"get_video_id", "has_captions", "get_transcript", "save_transcript">>

\* the step of the last call that yielded nothing, 0 if none did
EmptyStep ==
    IF t_last.id \in {"None", "empty"} THEN 1
    ELSE IF t_last.captions = "False" THEN 2
    ELSE IF t_last.transcript \in {"None", "empty"} THEN 3
    ELSE 0

\* C23: get_transcription runs video-id extraction, caption check,
\* transcript fetch, file save in that order; as soon as a step yields
\* nothing it returns False, writes no file and runs no later step; it
\* never raises
C23_StepsInOrderStopAtFirstEmpty ==
    t_count > 0 =>
       /\ t_last.kind = "return"
       /\ t_last.steps = SubSeq(StepOrder, 1, Len(t_last.steps))
       /\ EmptyStep # 0 =>
             /\ t_last.value = FALSE
             /\ t_last.steps = SubSeq(StepOrder, 1, EmptyStep)
             /\ t_files = t_last.before

\* a call stopped at the caption check after an earlier call saved a file
C23_Witness ==
    /\ t_count > 1
    /\ t_last.steps = <<"get_video_id", "has_captions">>
    /\ t_last.value = FALSE
    /\ \E f \in DOMAIN t_files : t_files[f] = "transcript"

\* C30: get_transcription returns True only if the transcript file was
\* written; when writing the file fails it returns False
C30_TrueOnlyIfFileWritten ==
    (t_count > 0 /\ t_last.value = TRUE) =>
        /\ t_last.save = "written"
        /\ t_last.file \in DOMAIN t_files
        /\ t_files[t_last.file] = "transcript"

----------------------------------------------------------------------------
(* Properties of the CLI loop of src/main.py, checked under MainSpec       *)

\* C24: once the channel-URL prompt has been answered, main ends only
\* because the user entered 'q' or interrupted (Ctrl-C, or end of input):
\* every other outcome of a round, an upstream error while listing
\* included, leads back to the channel-URL prompt
C24_EndsOnlyOnQuitOrInterrupt ==
    (mpc = "exit" /\ m_rounds > 0) =>
        m_error \in { "none", "KeyboardInterrupt", "EOFError" }

\* the number a selection text stands for once stripped, 0 if it is no number
Typed(text) ==
    IF IntRaises(Lower(Strip(text))) THEN 0 ELSE ParseInt(Lower(Strip(text)))

\* the text is the decimal numeral of a listed position
NamesListed(text) ==
    /\ ~IntRaises(Lower(Strip(text)))
    /\ 1 <= Typed(text) /\ Typed(text) <= Len(m_videos)

\* the downloads the last answer triggered
Triggered == SubSeq(s_downloads, s_last.before + 1, Len(s_downloads))

\* C25: at the selection prompt a number n triggers a download only when
\* 1 <= n <= number of listed videos, and then of exactly the n-th listed
\* video; any other number and any text other than 'all', 'b', 'q' triggers
\* no download and the prompt is shown again; 'b' triggers no download
\* (checked under CmMainSpec, where the prompt is reached)
C25_NumericChoiceDownloadsNthVideo ==
    s_prompts > 0 =>
       LET choice == Lower(Strip(s_last.text))
       IN /\ NamesListed(s_last.text) =>
               /\ Len(Triggered) = 1
               /\ Triggered[1].video = m_videos[Typed(s_last.text)]
          /\ (~NamesListed(s_last.text) /\ choice # <<"a", "l", "l">>) =>
               Triggered = <<>>
          /\ (~NamesListed(s_last.text)
                /\ choice \notin { <<"a", "l", "l">>, <<"b">>, <<"q">> }) =>
               mpc = "select_prompt"
          /\ choice = <<"b">> => Triggered = <<>>

\* the second of two listed videos was downloaded after a number out of
\* range and a text that is no number had been turned down
C25_Witness ==
    /\ s_prompts = 3
    /\ Len(m_videos) = 2
    /\ Typed(s_last.text) = 2
    /\ s_downloads = << [video |-> m_videos[2], ok |-> TRUE] >>
    /\ mpc = "exit"

----------------------------------------------------------------------------
(* Termination of get_channel_videos, checked under ListLiveSpec           *)

\* C27: a call of get_channel_videos with max_results > 0 eventually
\* completes, with a result or an error, whatever the endpoint answers,
\* pages with a next-page token and no items included
C27_CallEventuallyCompletes ==
    (max_results > 0 /\ lpc = "while") ~> (lpc = "done")

----------------------------------------------------------------------------
(* Properties of the retrying download_video of youtube_channel_manager,   *)
(* checked under CmDownloadSpec                                            *)

\* the passes of the current call that failed
Failed(i) == x_tried[i].outcome # "completes"

\* C28: a call makes at most 3 attempts; it returns True at the first
\* attempt that completes and makes no further attempt, returns False after
\* the third failed attempt, and is never left in the loop with no attempt
\* to make; attempt 2 uses 'best[height<=720]' and attempt 3 'worst',
\* attempt 1 the format the call found configured
C28_AtMostThreeAttempts ==
    /\ Len(x_tried) <= 3
    /\ \A i \in 1..(Len(x_tried) - 1) : Failed(i)
    /\ xpc = "while" =>
          /\ x_attempt = Len(x_tried) /\ x_attempt < 3
          /\ \A i \in 1..Len(x_tried) : Failed(i)
    /\ (xpc = "idle" /\ x_calls > 0) =>
          /\ x_last.kind = "return"
          /\ x_last.value = TRUE <=> ~Failed(Len(x_tried))
          /\ x_last.value = FALSE <=> (Len(x_tried) = 3 /\ Failed(3))
    /\ Len(x_tried) >= 2 => x_tried[2].format = "best[height<=720]"
    /\ Len(x_tried) >= 3 => x_tried[3].format = "worst"
    /\ (Len(x_tried) >= 1 /\ x_calls = 1) => x_tried[1].format = ConfiguredFormat

\* the first call on the object returned False after three failed attempts,
\* made with 'best', 'best[height<=720]' and 'worst'
C28_Witness ==
    /\ xpc = "idle" /\ x_calls = 1
    /\ Len(x_tried) = 3 /\ x_last.value = FALSE
    /\ x_tried[1].format = "best" /\ x_tried[2].format = "best[height<=720]"
    /\ x_tried[3].format = "worst"

\* C29: every call on one VideoDownloader makes its first attempt with the
\* format configured at construction, whatever failed in earlier calls
C29_EveryCallStartsWithConfiguredFormat ==
    Len(x_tried) >= 1 => x_tried[1].format = ConfiguredFormat

====
